---- MODULE Spec2Model ----
(***************************************************************************)
(* A model of the coordination core of claude-orchestrator: the Redis task *)
(* queue (backend/queue/redis_queue.py), the Redis lock manager            *)
(* (backend/locking/redis_lock.py), the worker's task execution            *)
(* (backend/orchestrator/worker_agent.py) and the merge orchestrator       *)
(* (backend/orchestrator/merge_orchestrator.py, backend/git/               *)
(* merge_strategy.py).  Each component has its own specification over the  *)
(* variables it uses; the variables of the other components stay at their  *)
(* initial value.                                                          *)
(***************************************************************************)
EXTENDS Integers, Sequences, FiniteSets, TLC

VARIABLES
    \* ---- RedisQueue: the keys of the store
    status,        \* task:<id>:status      id -> "none" | "pending" | ...
    task_hash,     \* task:<id>             id -> the stored Task (or absent)
    deps_set,      \* task:dependencies:<id>  id -> set of ids
    pending,       \* task:pending          set of ids
    queue,         \* task:queue:<type>     type -> list, head first
    qlast,         \* the last RedisQueue call and what it saw and returned
    qcalls,        \* number of RedisQueue calls made so far
    \* ---- RedisLock: the keys of the store and the callers' Lock objects
    lock_store,    \* lock:<resource>       resource -> owner token (or absent)
    next_id,       \* the next fresh uuid4 owner token
    held,          \* caller -> the Lock objects acquire returned to it that
                   \*           it has not passed to release yet
    expired,       \* owner tokens whose record the TTL removed
    am,            \* the acquire_multiple call in progress
    llast,         \* the last RedisLock call and what it returned
    \* ---- WorkerAgent, one per worker
    wpc,           \* where the worker is in run_loop / _execute_task
    current_task,  \* self.current_task (NoTask: None)
    acquired_locks,\* self.acquired_locks
    result,        \* the TaskResult.success _execute_task returned
    obtained,      \* the owner tokens acquire returned for the current task
    finished,      \* the (task, success) pairs workers are through with
    is_running,    \* self.is_running
    stopped_in,    \* the task _execute_task was at when stop() was called
    stop_called,   \* per worker: stop() was called
    worktree,      \* per worker: the tasks whose changes its worktree holds
    branch_head,   \* per worker: the tasks whose changes the head commit of
                   \*             its branch holds
    lock_failed,   \* the tasks for which _acquire_file_locks raised
    reports,       \* per task: the report calls run_loop made for it, in order
    flast,         \* the last call of _acquire_file_locks on its own
    \* ---- RedisQueue, one store command at a time
    proc,          \* per caller: the call it is in, where, and its locals
    pushes,        \* per task: the LPUSHes of its id made so far
    enq,           \* the enqueue call in progress, where, and its locals
    \* ---- A quality gate
    vlast,         \* the last validate() of a gate and what came of it
    \* ---- MergeOrchestrator and the repository it merges into
    target_head,   \* the head commit of the target branch, as a commit count
    tree,          \* the target branch's worktree: "clean" or "merging"
    mpc,           \* where the call of merge_agent_work is
    margs,         \* its agent_branch, and run_quality_gates of the orchestrator
    mentry,        \* head and worktree when the call started
    mres,          \* how the last call ended
    mcalls,        \* calls of merge_agent_work made so far
    \* ---- QualityGatePipeline
    validators,    \* self.validators, in insertion order
    plast,         \* the last call of run_all and what it returned
    \* ---- DependencyGraph
    node_order,    \* the keys of self.nodes, in insertion order
    node_deps,     \* node.dependencies of every node of self.nodes
    edges,         \* self.edges: task id -> list of dependent task ids
    glast,         \* the last call on the graph and what it returned
    gadds,         \* calls of add_node made so far
    \* ---- RedisLock under a clock
    now,           \* time.time(), in ticks
    ttl_at,        \* per key: the time its EX runs out (0: no record)
    acq,           \* per caller: the acquire call it is in, with its deadline
    \* ---- WorktreeManager and the branches of the repository
    branches,      \* the agent branches the repository has
    worktree_paths,\* the branches whose directory .worktrees/<branch> exists
    rlast          \* the last call on the repository and how it ended

qvars == <<status, task_hash, deps_set, pending, queue, qlast, qcalls>>
lvars == <<lock_store, next_id, held, expired, am, llast>>
wvars == <<wpc, current_task, acquired_locks, result, obtained, finished,
           is_running, stopped_in, stop_called, worktree, branch_head,
           lock_failed, reports>>
bvars == <<worktree, branch_head>>
hvars == <<lock_failed, reports>>
svars == <<is_running, stopped_in, stop_called>>
mvars == <<target_head, tree, mpc, margs, mentry, mres, mcalls>>
pvars == <<validators, plast>>
gvars == <<node_order, node_deps, edges, glast, gadds>>
tvars == <<now, ttl_at, acq>>
fvars == <<flast>>
kvars == <<proc, pushes>>
evars == <<enq>>
vvars == <<vlast>>
rvars == <<branches, worktree_paths, rlast>>

vars == <<status, task_hash, deps_set, pending, queue, qlast, qcalls,
          lock_store, next_id, held, expired, am, llast,
          wpc, current_task, acquired_locks, result, obtained, finished,
          is_running, stopped_in, stop_called, worktree, branch_head,
          lock_failed, reports,
          flast, proc, pushes, enq, vlast,
          target_head, tree, mpc, margs, mentry, mres, mcalls,
          validators, plast,
          node_order, node_deps, edges, glast, gadds,
          now, ttl_at, acq,
          branches, worktree_paths, rlast>>

\* What the actions of one component leave alone.
notq == <<lvars, wvars, mvars, pvars, gvars, tvars, fvars, kvars, vvars, rvars, evars>>
notl == <<qvars, wvars, mvars, pvars, gvars, tvars, fvars, kvars, vvars, rvars, evars>>
notw == <<svars, bvars, hvars, mvars, pvars, gvars, tvars, fvars, kvars, vvars, rvars, evars>>
notk == <<lvars, wvars, mvars, pvars, gvars, tvars, fvars, vvars, rvars, evars>>
note == <<lvars, wvars, mvars, pvars, gvars, tvars, fvars, vvars, rvars>>
notv == <<qvars, lvars, wvars, mvars, pvars, gvars, tvars, fvars, kvars, rvars, evars>>
notf == <<qvars, lvars, wvars, mvars, pvars, gvars, tvars, kvars, vvars, rvars, evars>>
nots == <<bvars, mvars, pvars, gvars, tvars, fvars, kvars, vvars, rvars, evars>>
noth == <<svars, bvars, mvars, pvars, gvars, tvars, fvars, kvars, vvars, rvars, evars>>
notb == <<svars, hvars, mvars, pvars, gvars, tvars, fvars, kvars, vvars, rvars, evars>>
notm == <<qvars, lvars, wvars, pvars, gvars, tvars, fvars, kvars, vvars, rvars, evars>>
notp == <<qvars, lvars, wvars, mvars, gvars, tvars, fvars, kvars, vvars, rvars, evars>>
notg == <<qvars, lvars, wvars, mvars, pvars, tvars, fvars, kvars, vvars, rvars, evars>>
nott == <<qvars, wvars, mvars, pvars, gvars, fvars, kvars, vvars, rvars, evars>>
notr == <<qvars, lvars, wvars, mvars, pvars, gvars, tvars, fvars, kvars, vvars, evars>>

\* ------------------------------------------------------------------------
\* Bounds of the model
\* ------------------------------------------------------------------------
MaxTasks == 3
MaxQueueCalls == 5

TaskIds == 1..MaxTasks
AgentTypes == {"backend", "frontend"}

\* Task.agent_type of the task with a given id: tasks 1 and 2 are backend
\* tasks, every other one a frontend task.
AgentTypeOf(t) == IF t <= 2 THEN "backend" ELSE "frontend"

\* Task.dependencies a caller may pass for task t.
DependencyLists(t) == SUBSET (TaskIds \ {t})

\* The elements of a sequence.
Range(q) == {q[i] : i \in DOMAIN q}

NoTask == 0
NoHash == [present |-> FALSE, agent_type |-> "", dependencies |-> {}]

\* ------------------------------------------------------------------------
\* RedisQueue
\* ------------------------------------------------------------------------

\* RPUSH in the place of LPUSH: the new element becomes the tail.
LPush_Tail(q, t) == Append(q, t)

\* LPUSH: the new element becomes the head of the list.
LPush(q, t) == <<t>> \o q

\* _check_dependencies_satisfied(task_id): every member of the stored
\* dependency set has status completed (a missing status counts as unmet).
CheckDependenciesSatisfied(ds, st) == \A d \in ds : st[d] = "completed"

\* enqueue(task): store the hash, set status pending, then either hold the
\* task in the pending set or push it to its specialty queue.
Enqueue(t, dependencies) ==
    LET hash == [present |-> TRUE, agent_type |-> AgentTypeOf(t),
                 dependencies |-> dependencies]
        st1 == [status EXCEPT ![t] = "pending"]
        ds1 == IF dependencies # {}
               THEN [deps_set EXCEPT ![t] = @ \cup dependencies]
               ELSE deps_set
        unmet == dependencies # {} /\ ~CheckDependenciesSatisfied(ds1[t], st1)
    IN  /\ task_hash' = [task_hash EXCEPT ![t] = hash]
        /\ status' = st1
        /\ deps_set' = ds1
        /\ IF unmet
           THEN /\ pending' = pending \cup {t}
                /\ queue' = queue
           ELSE /\ pending' = pending
                /\ queue' = [queue EXCEPT ![hash.agent_type] = LPush(@, t)]
        /\ qlast' = [op |-> "enqueue", task |-> t, success |-> TRUE]

\* dequeue(agent_type): BRPOP takes the tail of the list; a timeout or a
\* missing hash returns None, otherwise the status becomes in_progress.
Dequeue(a) ==
    IF queue[a] = <<>>
    THEN /\ qlast' = [op |-> "dequeue", task |-> NoTask, success |-> FALSE]
         /\ UNCHANGED <<status, task_hash, deps_set, pending, queue>>
    ELSE LET t == queue[a][Len(queue[a])]
             found == task_hash[t].present
         IN  /\ queue' = [queue EXCEPT ![a] = SubSeq(@, 1, Len(@) - 1)]
             /\ status' = IF found THEN [status EXCEPT ![t] = "in_progress"]
                          ELSE status
             /\ qlast' = [op |-> "dequeue", task |-> IF found THEN t ELSE NoTask,
                          success |-> found]
             /\ UNCHANGED <<task_hash, deps_set, pending>>

\* The tasks _check_and_enqueue_dependents touches for a completed id: the
\* members of the pending set whose stored dependency set holds the id.
Dependents(c) == {d \in pending : c \in deps_set[d]}

\* Those of them whose dependency set is empty once the id is removed.
Promoted(c) == {d \in Dependents(c) : deps_set[d] \ {c} = {}}

\* The pushes of one promotion pass, in the order the pass made them.
RECURSIVE PushAll(_, _)
PushAll(q, order) ==
    IF order = <<>> THEN q
    ELSE LET d == Head(order)
         IN  PushAll(IF task_hash[d].present
                     THEN [q EXCEPT ![task_hash[d].agent_type] = LPush(@, d)]
                     ELSE q,
                     Tail(order))

\* The orders in which a pass can meet a set of tasks (SMEMBERS is unordered).
Orders(S) == {o \in [1..Cardinality(S) -> S] : \A i, j \in DOMAIN o : i # j => o[i] # o[j]}

\* _check_and_enqueue_dependents(completed_task_id)
CheckAndEnqueueDependents(c, order) ==
    /\ deps_set' = [d \in TaskIds |->
                      IF d \in Dependents(c) THEN deps_set[d] \ {c} ELSE deps_set[d]]
    /\ pending' = pending \ Promoted(c)
    /\ queue' = PushAll(queue, order)

\* A mark_completed that runs the promotion pass whatever the result.
PromotesOn_Always(success) == TRUE

\* if result.success: await self._check_and_enqueue_dependents(task_id)
PromotesOn(success) == success

\* mark_completed(task_id, result)
MarkCompleted(t, success) ==
    /\ status' = [status EXCEPT ![t] = IF success THEN "completed" ELSE "failed"]
    /\ IF PromotesOn(success)
       THEN \E order \in Orders(Promoted(t)) : CheckAndEnqueueDependents(t, order)
       ELSE UNCHANGED <<deps_set, pending, queue>>
    /\ qlast' = [op |-> "mark_completed", task |-> t, success |-> success]
    /\ UNCHANGED task_hash

QInit ==
    /\ status = [t \in TaskIds |-> "none"]
    /\ task_hash = [t \in TaskIds |-> NoHash]
    /\ deps_set = [t \in TaskIds |-> {}]
    /\ pending = {}
    /\ queue = [a \in AgentTypes |-> <<>>]
    /\ qlast = [op |-> "init", task |-> NoTask, success |-> FALSE]
    /\ qcalls = 0

\* A Task is an immutable descriptor: a second enqueue of an id passes the
\* same dependencies list as the first.
QEnqueue ==
    /\ qcalls < MaxQueueCalls
    /\ qcalls' = qcalls + 1
    /\ \E t \in TaskIds : \E dependencies \in DependencyLists(t) :
          /\ task_hash[t].present => dependencies = task_hash[t].dependencies
          /\ Enqueue(t, dependencies)
    /\ UNCHANGED notq

QDequeue ==
    /\ qcalls < MaxQueueCalls
    /\ qcalls' = qcalls + 1
    /\ \E a \in AgentTypes : Dequeue(a)
    /\ UNCHANGED notq

QMarkCompleted ==
    /\ qcalls < MaxQueueCalls
    /\ qcalls' = qcalls + 1
    /\ \E t \in TaskIds : \E success \in BOOLEAN : MarkCompleted(t, success)
    /\ UNCHANGED notq

QNext == QEnqueue \/ QDequeue \/ QMarkCompleted


\* A run of one plan: the planner enqueues each task once, and a worker
\* reports a task once, after the dequeue that handed it out.
PlanEnqueue ==
    /\ qcalls' = qcalls + 1
    /\ \E t \in TaskIds : \E dependencies \in DependencyLists(t) :
          /\ ~task_hash[t].present
          /\ Enqueue(t, dependencies)
    /\ UNCHANGED notq

PlanDequeue ==
    /\ qcalls' = qcalls + 1
    /\ \E a \in AgentTypes : queue[a] # <<>> /\ Dequeue(a)
    /\ UNCHANGED notq

PlanMarkCompleted ==
    /\ qcalls' = qcalls + 1
    /\ \E t \in TaskIds : \E success \in BOOLEAN :
          /\ status[t] = "in_progress"
          /\ MarkCompleted(t, success)
    /\ UNCHANGED notq

PlanNext == PlanEnqueue \/ PlanDequeue \/ PlanMarkCompleted


\* ------------------------------------------------------------------------
\* RedisLock
\* ------------------------------------------------------------------------
MaxLockIds == 3

Callers == {"w1", "w2"}
Resources == {"a", "b"}

NoLock == 0

\* Lock(resource, lock_id)
Lock(r, id) == [resource |-> r, lock_id |-> id]

\* SET without NX: the write succeeds whatever the key holds.
SetNxOk_NoNx(store, r) == TRUE

\* SET lock:<resource> <lock_id> NX EX: succeeds only when the key is absent.
SetNxOk(store, r) == store[r] = NoLock

\* A release that deletes whatever record is there, without comparing owners.
ReleaseReturns_NoCompare(store, l) == store[l.resource] # NoLock

\* The release script: GET == ARGV[1], then DEL and 1, otherwise 0.
ReleaseReturns(store, l) == store[l.resource] = l.lock_id

StoreAfterRelease(store, l) ==
    IF ReleaseReturns(store, l) THEN [store EXCEPT ![l.resource] = NoLock] ELSE store

\* for lock in locks: await self.release(lock)
RECURSIVE ReleaseAll(_, _)
ReleaseAll(store, locks) ==
    IF locks = <<>> THEN store
    ELSE ReleaseAll(StoreAfterRelease(store, Head(locks)), Tail(locks))

\* The resource lists a caller passes to acquire_multiple.
ResourceLists ==
    {rs \in UNION {[1..n -> Resources] : n \in 1..Cardinality(Resources)} :
        \A i, j \in DOMAIN rs : i # j => rs[i] # rs[j]}

NoCall == [pc |-> "idle", resources |-> <<>>, locks_acquired |-> <<>>]

LInit ==
    /\ lock_store = [r \in Resources |-> NoLock]
    /\ next_id = 1
    /\ held = [c \in Callers |-> {}]
    /\ expired = {}
    /\ am = NoCall
    /\ llast = [op |-> "init", caller |-> "", lock |-> Lock("", NoLock), ret |-> FALSE]

\* acquire(resource) returns a Lock: one of its SET NX attempts succeeded.
LAcquire ==
    /\ next_id <= MaxLockIds
    /\ \E c \in Callers, r \in Resources :
          /\ SetNxOk(lock_store, r)
          /\ lock_store' = [lock_store EXCEPT ![r] = next_id]
          /\ held' = [held EXCEPT ![c] = @ \cup {Lock(r, next_id)}]
          /\ llast' = [op |-> "acquire", caller |-> c, lock |-> Lock(r, next_id),
                       ret |-> TRUE]
    /\ next_id' = next_id + 1
    /\ UNCHANGED <<expired, am>>
    /\ UNCHANGED notl

\* acquire(resource) raises LockTimeoutError: the key was present at every
\* attempt up to the deadline.
LAcquireTimeout ==
    /\ \E c \in Callers, r \in Resources :
          /\ ~SetNxOk(lock_store, r)
          /\ llast' = [op |-> "acquire", caller |-> c, lock |-> Lock(r, NoLock),
                       ret |-> FALSE]
    /\ UNCHANGED <<lock_store, next_id, held, expired, am>>
    /\ UNCHANGED notl

\* release(lock) of a Lock object the caller has.
LRelease ==
    /\ \E c \in Callers : \E l \in held[c] :
          /\ lock_store' = StoreAfterRelease(lock_store, l)
          /\ held' = [held EXCEPT ![c] = @ \ {l}]
          /\ expired' = expired \ {l.lock_id}
          /\ llast' = [op |-> "release", caller |-> c, lock |-> l,
                       ret |-> ReleaseReturns(lock_store, l)]
    /\ UNCHANGED <<next_id, am>>
    /\ UNCHANGED notl

\* The TTL of a record runs out (EX): the store deletes the key.
LExpire ==
    /\ \E r \in Resources :
          /\ lock_store[r] # NoLock
          /\ expired' = expired \cup {lock_store[r]}
          /\ lock_store' = [lock_store EXCEPT ![r] = NoLock]
          /\ llast' = [op |-> "expire", caller |-> "", lock |-> Lock(r, lock_store[r]),
                       ret |-> TRUE]
    /\ UNCHANGED <<next_id, held, am>>
    /\ UNCHANGED notl

LNext == LAcquire \/ LAcquireTimeout \/ LRelease \/ LExpire

\* The caller of acquire_multiple; the other callers contend with it through
\* acquire and release.
BulkCaller == "w1"

\* acquire_multiple(resources) is called: locks_acquired = [].
AMStart ==
    /\ am.pc = "idle"
    /\ \E rs \in ResourceLists :
          am' = [pc |-> "acquiring", resources |-> rs, locks_acquired |-> <<>>]
    /\ llast' = [op |-> "call", caller |-> BulkCaller, lock |-> Lock("", NoLock),
                 ret |-> FALSE]
    /\ UNCHANGED <<lock_store, next_id, held, expired>>
    /\ UNCHANGED notl

\* The resource the loop of acquire_multiple is at.
AMResource == am.resources[Len(am.locks_acquired) + 1]

AMAcquiring ==
    /\ am.pc = "acquiring"
    /\ Len(am.locks_acquired) < Len(am.resources)

\* lock = await self.acquire(resource); locks_acquired.append(lock)
AMAcquire ==
    /\ next_id <= MaxLockIds
    /\ AMAcquiring
    /\ SetNxOk(lock_store, AMResource)
    /\ lock_store' = [lock_store EXCEPT ![AMResource] = next_id]
    /\ am' = [am EXCEPT !.locks_acquired = Append(@, Lock(AMResource, next_id))]
    /\ llast' = [op |-> "acquire", caller |-> BulkCaller,
                 lock |-> Lock(AMResource, next_id), ret |-> TRUE]
    /\ next_id' = next_id + 1
    /\ UNCHANGED <<held, expired>>
    /\ UNCHANGED notl

\* except LockTimeoutError: release what was acquired, then raise.
AMTimeout ==
    /\ AMAcquiring
    /\ ~SetNxOk(lock_store, AMResource)
    /\ lock_store' = ReleaseAll(lock_store, am.locks_acquired)
    /\ am' = [am EXCEPT !.pc = "raised"]
    /\ llast' = [op |-> "acquire_multiple", caller |-> BulkCaller,
                 lock |-> Lock("", NoLock), ret |-> FALSE]
    /\ UNCHANGED <<next_id, held, expired>>
    /\ UNCHANGED notl

\* acquire raises something that is no LockTimeoutError (an error of the
\* store client in redis.set, a CancelledError in asyncio.sleep): no except
\* clause of acquire_multiple matches and the exception leaves the call.
AMOtherException ==
    /\ AMAcquiring
    /\ am' = [am EXCEPT !.pc = "raised"]
    /\ llast' = [op |-> "acquire_multiple", caller |-> BulkCaller,
                 lock |-> Lock("", NoLock), ret |-> FALSE]
    /\ UNCHANGED <<lock_store, next_id, held, expired>>
    /\ UNCHANGED notl

\* return locks_acquired
AMReturn ==
    /\ am.pc = "acquiring"
    /\ Len(am.locks_acquired) = Len(am.resources)
    /\ am' = [am EXCEPT !.pc = "returned"]
    /\ held' = [held EXCEPT ![BulkCaller] =
                  @ \cup {am.locks_acquired[i] : i \in DOMAIN am.locks_acquired}]
    /\ llast' = [op |-> "acquire_multiple", caller |-> BulkCaller,
                 lock |-> Lock("", NoLock), ret |-> TRUE]
    /\ UNCHANGED <<lock_store, next_id, expired>>
    /\ UNCHANGED notl

BulkNext ==
    \/ AMStart \/ AMAcquire \/ AMTimeout \/ AMOtherException \/ AMReturn
    \/ LAcquire \/ LRelease \/ LExpire

\* ------------------------------------------------------------------------
\* WorkerAgent
\* ------------------------------------------------------------------------

\* AgentConfig.agent_type of a worker.
WorkerType(w) == "backend"

\* task.files_to_create + task.files_to_modify of the task with a given id.
TaskFiles(t) == IF t = 1 THEN <<"a", "b">> ELSE <<"a">>

\* The dependencies lists of the plan the workers run.
SeedDependencies(t) == IF t = 2 THEN {{}, {1}} ELSE {{}}

\* The methods class RedisQueue defines.
RedisQueueMethods ==
    {"enqueue", "dequeue", "mark_completed", "get_task_status",
     "get_queue_depth", "get_pending_count", "clear_queue",
     "_check_and_enqueue_dependents", "_check_dependencies_satisfied"}

\* The parameters mark_completed requires, and the arguments run_loop passes.
MarkCompletedParams == {"task_id", "result"}
RunLoopMarkCompletedArgs == {"task_id"}

\* Whether a call of the queue raises before doing anything: AttributeError
\* for a method the class does not have, TypeError for a missing argument.
CallRaises(method, args) ==
    \/ method \notin RedisQueueMethods
    \/ method = "mark_completed" /\ args # MarkCompletedParams

\* _release_file_locks without the release calls: only the list is cleared.
ReleaseFileLocks_ClearOnly(store, locks) == store

\* _release_file_locks: release every lock of self.acquired_locks.
ReleaseFileLocks(store, locks) == ReleaseAll(store, locks)

WInit ==
    /\ wpc = [w \in Callers |-> "created"]
    /\ current_task = [w \in Callers |-> NoTask]
    /\ acquired_locks = [w \in Callers |-> <<>>]
    /\ result = [w \in Callers |-> FALSE]
    /\ obtained = [w \in Callers |-> {}]
    /\ finished = {}
    /\ is_running = [w \in Callers |-> FALSE]
    /\ stopped_in = [w \in Callers |-> NoTask]
    /\ stop_called = [w \in Callers |-> FALSE]
    /\ worktree = [w \in Callers |-> {}]
    /\ branch_head = [w \in Callers |-> {}]
    /\ lock_failed = {}
    /\ reports = [t \in TaskIds |-> <<>>]

\* A worker after __init__ (and spawn) that has not started run_loop yet.
Created(w) == wpc[w] = "created"

\* run_loop starts: self.is_running = True, then the while loop.
WRunLoop ==
    /\ \E w \in Callers :
          /\ Created(w)
          /\ is_running' = [is_running EXCEPT ![w] = TRUE]
          /\ wpc' = [wpc EXCEPT ![w] = "poll"]
    /\ UNCHANGED <<current_task, acquired_locks, result, obtained, finished,
                   stopped_in, stop_called>>
    /\ UNCHANGED <<qvars, lvars>>
    /\ UNCHANGED hvars
    /\ UNCHANGED nots

\* The planner enqueues a task of the plan.
WEnqueue ==
    /\ \E t \in TaskIds : \E dependencies \in SeedDependencies(t) :
          /\ ~task_hash[t].present
          /\ Enqueue(t, dependencies)
    /\ UNCHANGED qcalls
    /\ UNCHANGED <<lvars, wvars>>
    /\ UNCHANGED notw

\* run_loop: task = await self.queue.dequeue(...); self.current_task = task
WDequeue ==
    /\ \E w \in Callers :
          /\ wpc[w] = "poll"
          /\ is_running[w]
          /\ queue[WorkerType(w)] # <<>>
          /\ Dequeue(WorkerType(w))
          /\ current_task' = [current_task EXCEPT ![w] = qlast'.task]
          /\ wpc' = [wpc EXCEPT ![w] = IF qlast'.success THEN "acquire" ELSE "poll"]
          /\ obtained' = [obtained EXCEPT ![w] = {}]
    /\ UNCHANGED <<qcalls, acquired_locks, result, finished>>
    /\ UNCHANGED lvars
    /\ UNCHANGED notw

\* The path _acquire_file_locks is at.
WResource(w) == TaskFiles(current_task[w])[Len(acquired_locks[w]) + 1]

\* _execute_task leaves through return and the finally clause: the locks are
\* released and the result is handed to run_loop.
ExitExecuteTask(w, success) ==
    /\ lock_store' = ReleaseFileLocks(lock_store, acquired_locks[w])
    /\ acquired_locks' = [acquired_locks EXCEPT ![w] = <<>>]
    /\ result' = [result EXCEPT ![w] = success]
    /\ wpc' = [wpc EXCEPT ![w] = "report"]

\* _acquire_file_locks: lock = await self.locks.acquire(...); append.
WAcquire ==
    /\ next_id <= MaxLockIds
    /\ \E w \in Callers :
          /\ wpc[w] = "acquire"
          /\ Len(acquired_locks[w]) < Len(TaskFiles(current_task[w]))
          /\ SetNxOk(lock_store, WResource(w))
          /\ lock_store' = [lock_store EXCEPT ![WResource(w)] = next_id]
          /\ acquired_locks' = [acquired_locks EXCEPT ![w] =
                                   Append(@, Lock(WResource(w), next_id))]
          /\ obtained' = [obtained EXCEPT ![w] = @ \cup {next_id}]
    /\ next_id' = next_id + 1
    /\ UNCHANGED <<wpc, current_task, result, finished>>
    /\ UNCHANGED <<qvars, held, expired, am, llast>>
    /\ UNCHANGED notw

\* All locks are held: _execute_task goes on to the LLM call.
WLocked ==
    /\ \E w \in Callers :
          /\ wpc[w] = "acquire"
          /\ Len(acquired_locks[w]) = Len(TaskFiles(current_task[w]))
          /\ wpc' = [wpc EXCEPT ![w] = "llm"]
    /\ UNCHANGED <<current_task, acquired_locks, result, obtained, finished>>
    /\ UNCHANGED <<qvars, lvars>>
    /\ UNCHANGED notw

\* acquire raises (LockTimeoutError): _acquire_file_locks releases what it
\* has and raises LockAcquisitionError, which _execute_task turns into a
\* failed result.
WAcquireFail ==
    /\ \E w \in Callers :
          /\ wpc[w] = "acquire"
          /\ Len(acquired_locks[w]) < Len(TaskFiles(current_task[w]))
          /\ ~SetNxOk(lock_store, WResource(w))
          /\ ExitExecuteTask(w, FALSE)
          /\ lock_failed' = lock_failed \cup {current_task[w]}
    /\ UNCHANGED <<current_task, obtained, finished, reports>>
    /\ UNCHANGED <<qvars, next_id, held, expired, am, llast>>
    /\ UNCHANGED noth

\* _invoke_llm_for_task returns the response.
WInvokeLLM ==
    /\ \E w \in Callers :
          /\ wpc[w] = "llm"
          /\ wpc' = [wpc EXCEPT ![w] = "apply"]
    /\ UNCHANGED <<current_task, acquired_locks, result, obtained, finished>>
    /\ UNCHANGED <<qvars, lvars>>
    /\ UNCHANGED notw

\* _apply_changes writes the files of the task into the worktree.
WApplyChanges ==
    /\ \E w \in Callers :
          /\ wpc[w] = "apply"
          /\ wpc' = [wpc EXCEPT ![w] = "commit"]
          /\ worktree' = [worktree EXCEPT ![w] = @ \cup {current_task[w]}]
    /\ UNCHANGED <<current_task, acquired_locks, result, obtained, finished,
                   branch_head>>
    /\ UNCHANGED <<qvars, lvars>>
    /\ UNCHANGED notb

\* commit_in_worktree without the commit: the head stays where it is.
CommitInWorktree_Nothing(head, worktree_path) == head

\* commit_in_worktree: git add ".", and a commit of the worktree when it
\* differs from the head; the head is returned either way.
CommitInWorktree(head, worktree_path) ==
    IF worktree_path # head THEN worktree_path ELSE head

\* commit_in_worktree returns the commit: TaskResult(success=True).
WCommit ==
    /\ \E w \in Callers :
          /\ wpc[w] = "commit"
          /\ branch_head' = [branch_head EXCEPT ![w] =
                                CommitInWorktree(@, worktree[w])]
          /\ ExitExecuteTask(w, TRUE)
    /\ UNCHANGED <<current_task, obtained, finished, worktree>>
    /\ UNCHANGED <<qvars, next_id, held, expired, am, llast>>
    /\ UNCHANGED notb

\* The LLM call, the file writes or the commit raise: except Exception
\* returns TaskResult(success=False).
WStepFails ==
    /\ \E w \in Callers :
          /\ wpc[w] \in {"llm", "apply", "commit"}
          /\ ExitExecuteTask(w, FALSE)
    /\ UNCHANGED <<current_task, obtained, finished>>
    /\ UNCHANGED <<qvars, next_id, held, expired, am, llast>>
    /\ UNCHANGED notw

\* The report calls run_loop makes for a result: the call of the try block
\* and, when that raises, the mark_failed call of except Exception.
ReportCalls(success) ==
    LET first == IF success THEN "mark_completed" ELSE "mark_failed"
        args == IF success THEN RunLoopMarkCompletedArgs
                ELSE {"task_id", "error_message"}
    IN  IF CallRaises(first, args) THEN <<first, "mark_failed">> ELSE <<first>>

\* run_loop reports the result: mark_completed(task.id) on success,
\* mark_failed(task.id, error_message=...) otherwise. A call that raises is
\* caught by except Exception, which calls mark_failed for the current task;
\* an exception of that call leaves run_loop through its finally clause.
WReport ==
    /\ \E w \in Callers :
          /\ wpc[w] = "report"
          /\ LET t == current_task[w]
                 first == IF result[w] THEN "mark_completed" ELSE "mark_failed"
                 args == IF result[w] THEN RunLoopMarkCompletedArgs
                         ELSE {"task_id", "error_message"}
             IN  IF ~CallRaises(first, args)
                 THEN /\ MarkCompleted(t, result[w])
                      /\ current_task' = [current_task EXCEPT ![w] = NoTask]
                      /\ wpc' = [wpc EXCEPT ![w] = "poll"]
                 ELSE IF ~CallRaises("mark_failed", {"task_id", "error_message"})
                 THEN /\ MarkCompleted(t, FALSE)
                      /\ UNCHANGED current_task
                      /\ wpc' = [wpc EXCEPT ![w] = "poll"]
                 ELSE /\ UNCHANGED <<status, task_hash, deps_set, pending, queue,
                                     qlast, current_task>>
                      /\ wpc' = [wpc EXCEPT ![w] = "stopped"]
          /\ is_running' = [is_running EXCEPT ![w] =
                               @ /\ wpc'[w] # "stopped"]
          /\ finished' = finished \cup
                           {[task |-> current_task[w], success |-> result[w]]}
          /\ reports' = [reports EXCEPT ![current_task[w]] =
                            @ \o ReportCalls(result[w])]
    /\ UNCHANGED <<qcalls, acquired_locks, result, obtained>>
    /\ UNCHANGED lvars
    /\ UNCHANGED <<stopped_in, stop_called, lock_failed>>
    /\ UNCHANGED nots

\* Whether the worker is inside _execute_task.
InExecuteTask(w) == wpc[w] \in {"acquire", "llm", "apply", "commit"}

\* stop(): self.is_running = False
WStop ==
    /\ \E w \in Callers :
          /\ wpc[w] # "stopped"
          /\ ~stop_called[w]
          /\ stop_called' = [stop_called EXCEPT ![w] = TRUE]
          /\ is_running' = [is_running EXCEPT ![w] = FALSE]
          /\ stopped_in' = [stopped_in EXCEPT ![w] =
                               IF InExecuteTask(w) THEN current_task[w] ELSE NoTask]
    /\ UNCHANGED <<wpc, current_task, acquired_locks, result, obtained, finished>>
    /\ UNCHANGED <<qvars, lvars>>
    /\ UNCHANGED hvars
    /\ UNCHANGED nots

\* while self.is_running: the flag is down, run_loop returns.
WExit ==
    /\ \E w \in Callers :
          /\ wpc[w] = "poll"
          /\ ~is_running[w]
          /\ wpc' = [wpc EXCEPT ![w] = "stopped"]
    /\ UNCHANGED <<current_task, acquired_locks, result, obtained, finished>>
    /\ UNCHANGED <<qvars, lvars>>
    /\ UNCHANGED notw

\* The steps of the workers, the planner and the TTL of the lock records.
WNext ==
    \/ WEnqueue \/ WDequeue \/ WAcquire \/ WLocked \/ WAcquireFail
    \/ WInvokeLLM \/ WApplyChanges \/ WCommit \/ WStepFails \/ WReport
    \/ WStop \/ WExit \/ WRunLoop
    \/ LExpire

\* ------------------------------------------------------------------------
\* QualityGatePipeline
\* ------------------------------------------------------------------------

MaxValidators == 3

\* What validate() of a validator does: it returns a result with one of
\* these statuses, or it raises.
ValidateOutcomes == {"passed", "failed", "error", "raises"}

\* A validator: what its _is_skippable() answers and what its validate()
\* would do.
Validators == [skippable : BOOLEAN, outcome : ValidateOutcomes]

\* run_all that never asks _is_skippable.
Skips_Never(v) == FALSE

\* if validator._is_skippable(): the validator gets a skipped result.
Skips(v) == v.skippable

\* The status of the result run_all appends for a validator it invokes; an
\* exception of validate() becomes an error result.
StatusOf(v) == IF v.outcome = "raises" THEN "error" ELSE v.outcome

\* run_all that goes on after a failed or errored result.
Breaks_Never(st, stop_on_failure) == FALSE

\* The loop of run_all breaks after a failed or errored result under
\* stop_on_failure.
Breaks(st, stop_on_failure) == stop_on_failure /\ st \in {"failed", "error"}

\* The loop of run_all from validator i on; acc carries all_passed, the
\* results and the validators whose validate() was called.
RECURSIVE RunFrom(_, _, _, _)
RunFrom(vs, i, stop_on_failure, acc) ==
    IF i > Len(vs) THEN acc
    ELSE IF Skips(vs[i])
    THEN RunFrom(vs, i + 1, stop_on_failure,
                 [acc EXCEPT !.results =
                      Append(@, [gate_name |-> i, status |-> "skipped"])])
    ELSE LET st == StatusOf(vs[i])
             next == [all_passed |-> acc.all_passed /\ st \notin {"failed", "error"},
                      results |-> Append(acc.results,
                                         [gate_name |-> i, status |-> st]),
                      invoked |-> Append(acc.invoked, i)]
         IN  IF Breaks(st, stop_on_failure) THEN next
             ELSE RunFrom(vs, i + 1, stop_on_failure, next)

\* run_all(stop_on_failure)
RunAll(vs, stop_on_failure) ==
    RunFrom(vs, 1, stop_on_failure,
            [all_passed |-> TRUE, results |-> <<>>, invoked |-> <<>>])

PInit ==
    /\ validators = <<>>
    /\ plast = [op |-> "init", n |-> 0, stop_on_failure |-> FALSE,
                all_passed |-> TRUE, results |-> <<>>, invoked |-> <<>>]

\* add_validator(validator)
PAddValidator ==
    /\ Len(validators) < MaxValidators
    /\ \E v \in Validators : validators' = Append(validators, v)
    /\ UNCHANGED plast
    /\ UNCHANGED notp

\* run_all(stop_on_failure) on the validators added so far
PRunAll ==
    /\ \E stop_on_failure \in BOOLEAN :
          LET r == RunAll(validators, stop_on_failure)
          IN  plast' = [op |-> "run_all", n |-> Len(validators),
                        stop_on_failure |-> stop_on_failure,
                        all_passed |-> r.all_passed, results |-> r.results,
                        invoked |-> r.invoked]
    /\ UNCHANGED validators
    /\ UNCHANGED notp

PNext == PAddValidator \/ PRunAll

\* ------------------------------------------------------------------------
\* MergeOrchestrator
\* ------------------------------------------------------------------------

MaxMerges == 2

\* The agent branches handed to merge_agent_work.
AgentBranches == {"agent-1", "agent-2"}

\* The files of the repository the branches change.
MergeFiles == {"README.md", "hello.py"}

\* The validators _run_quality_gates adds, in this order.
GateNames == <<"syntax", "security", "type_check", "lint", "tests">>

\* What the validators find in the worktree of the agent: all of them
\* pass, or one of them fails.
GateLists ==
    {vs \in [1..Len(GateNames) ->
                {v \in Validators :
                    ~v.skippable /\ v.outcome \in {"passed", "failed"}}] :
        Cardinality({i \in DOMAIN vs : vs[i].outcome = "failed"}) <= 1}

\* How the conflict pre-check goes: MergeStrategy defines neither
\* _get_changed_files nor _has_diverged, so the calls raise; where the
\* helpers are provided they compute the changed files of both sides.
PreCheckOutcomes == {"raises", "helpers"}

\* The text _detect_conflicts returns in the place of a file list when the
\* check raised.
ErrorChecking == "Error checking conflicts"

\* _detect_conflicts of the orchestrator: (has_conflicts, conflict_files).
DetectConflicts(outcome, branch_files, target_files) ==
    IF outcome = "raises"
    THEN [has_conflicts |-> TRUE, conflict_files |-> {ErrorChecking}]
    ELSE [has_conflicts |-> branch_files \cap target_files # {},
          conflict_files |-> branch_files \cap target_files]

\* What git merge can do once the target branch is checked out: create the
\* merge commit, stop on conflicts with the merge in progress, or fail
\* without starting a merge.
GitMergeOutcomes == {"merged", "conflict", "error"}

\* The conflict lists MergeStrategy._detect_conflicts parses from the
\* porcelain status: none of the recognised codes, or some.
ConflictLists == {<<>>, <<"UU">>}

\* _rollback_merge that does not abort the merge.
RollbackMerge_NoAbort(t) == [tree |-> t, ok |-> FALSE]

\* _rollback_merge that reports success whatever git merge --abort did.
RollbackMerge_AlwaysTrue(t) == [tree |-> "clean", ok |-> TRUE]

\* _rollback_merge: git merge --abort succeeds when a merge is in progress
\* and restores the worktree; otherwise it raises and False is returned.
RollbackMerge(t) ==
    IF t = "merging" THEN [tree |-> "clean", ok |-> TRUE]
    ELSE [tree |-> t, ok |-> FALSE]

\* MergeResult(conflicts=...) of the orchestrator declares list[str]: a list
\* holding ConflictInfo objects fails validation.
MergeResultRaises(conflicts) == conflicts # <<>>

NoMergeArgs ==
    [agent_branch |-> "", run_quality_gates |-> FALSE,
     stop_on_first_failure |-> FALSE, branch_files |-> {},
     target_files |-> {}, gates |-> <<>>]

\* No MergeResult yet.
NoMergeResult ==
    [op |-> "init", path |-> "", success |-> FALSE, commit_sha |-> 0,
     conflict_detected |-> FALSE, conflicts |-> {},
     quality_gates_passed |-> FALSE, quality_results |-> <<>>,
     rollback_performed |-> FALSE, raised |-> FALSE]

\* The MergeResult a call ends with; path names the return statement.
MergeEnded(path, fields) ==
    [op |-> "merge_agent_work", path |-> path, success |-> fields.success,
     commit_sha |-> fields.commit_sha,
     conflict_detected |-> fields.conflict_detected,
     conflicts |-> fields.conflicts,
     quality_gates_passed |-> fields.quality_gates_passed,
     quality_results |-> fields.quality_results,
     rollback_performed |-> fields.rollback_performed,
     raised |-> fields.raised]

\* The defaults of MergeResult.
MergeResultDefaults ==
    [success |-> FALSE, commit_sha |-> 0, conflict_detected |-> FALSE,
     conflicts |-> {}, quality_gates_passed |-> FALSE,
     quality_results |-> <<>>, rollback_performed |-> FALSE, raised |-> FALSE]

\* quality_results as step 3 sees it: the results of the pipeline, or []
\* when the gates are disabled.
QualityResults(args) ==
    IF args.run_quality_gates
    THEN RunAll(args.gates, args.stop_on_first_failure).results
    ELSE <<>>

MInit ==
    /\ target_head = 0
    /\ tree = "clean"
    /\ mpc = "idle"
    /\ margs = NoMergeArgs
    /\ mentry = [head |-> 0, tree |-> "clean"]
    /\ mres = NoMergeResult
    /\ mcalls = 0

\* merge_agent_work is called for a branch; the files changed on the branch
\* and on the target since they diverged, and what the validators will find,
\* are facts of the repository at that moment.
MStart ==
    /\ mpc = "idle"
    /\ mcalls < MaxMerges
    /\ \E b \in AgentBranches, g \in BOOLEAN, st \in BOOLEAN,
          bf \in SUBSET MergeFiles \ {{}}, tf \in SUBSET MergeFiles,
          gs \in GateLists :
          margs' = [agent_branch |-> b, run_quality_gates |-> g,
                    stop_on_first_failure |-> st, branch_files |-> bf,
                    target_files |-> tf, gates |-> gs]
    /\ mentry' = [head |-> target_head, tree |-> tree]
    /\ mres' = NoMergeResult
    /\ mpc' = "precheck"
    /\ mcalls' = mcalls + 1
    /\ UNCHANGED <<target_head, tree>>
    /\ UNCHANGED notm

\* Step 1: has_conflicts, conflict_files = await self._detect_conflicts(...)
MDetectConflicts ==
    /\ mpc = "precheck"
    /\ \E outcome \in PreCheckOutcomes :
          LET c == DetectConflicts(outcome, margs.branch_files,
                                   margs.target_files)
          IN  IF c.has_conflicts
              THEN /\ mres' = MergeEnded("precheck",
                                [MergeResultDefaults EXCEPT
                                    !.conflict_detected = TRUE,
                                    !.conflicts = c.conflict_files])
                   /\ mpc' = "idle"
              ELSE /\ mpc' = IF margs.run_quality_gates THEN "gates"
                             ELSE "merge"
                   /\ UNCHANGED mres
    /\ UNCHANGED <<target_head, tree, margs, mentry, mcalls>>
    /\ UNCHANGED notm

\* Step 2: quality_passed, quality_results = await self._run_quality_gates(...)
MRunQualityGates ==
    /\ mpc = "gates"
    /\ LET r == RunAll(margs.gates, margs.stop_on_first_failure)
       IN  IF r.all_passed
           THEN /\ mpc' = "merge"
                /\ UNCHANGED mres
           ELSE /\ mres' = MergeEnded("gates",
                             [MergeResultDefaults EXCEPT
                                 !.quality_results = r.results])
                /\ mpc' = "idle"
    /\ UNCHANGED <<target_head, tree, margs, mentry, mcalls>>
    /\ UNCHANGED notm

\* Step 3: MergeStrategy.merge_agent_work, then on failure _rollback_merge
\* and the failed MergeResult, on success the successful one.
MMerge ==
    /\ mpc = "merge"
    /\ \E checkout_ok \in BOOLEAN, git \in GitMergeOutcomes,
          conflicts \in ConflictLists :
          IF checkout_ok /\ git = "merged"
          THEN /\ target_head' = target_head + 1
               /\ mres' = MergeEnded("merged",
                            [MergeResultDefaults EXCEPT
                                !.success = TRUE,
                                !.commit_sha = target_head + 1,
                                !.quality_gates_passed = TRUE,
                                !.quality_results = QualityResults(margs)])
               /\ UNCHANGED tree
          ELSE LET found == IF checkout_ok /\ git = "conflict"
                            THEN conflicts ELSE <<>>
                   rb == RollbackMerge(IF checkout_ok /\ git = "conflict"
                                       THEN "merging" ELSE tree)
                   path == IF ~checkout_ok THEN "checkout"
                           ELSE IF git = "conflict" THEN "merge_conflict"
                           ELSE "merge_error"
               IN  /\ tree' = rb.tree
                   /\ mres' = MergeEnded(path,
                                [MergeResultDefaults EXCEPT
                                    !.conflict_detected = TRUE,
                                    !.conflicts = {found[i] : i \in DOMAIN found},
                                    !.quality_gates_passed = TRUE,
                                    !.quality_results = QualityResults(margs),
                                    !.rollback_performed = rb.ok,
                                    !.raised = MergeResultRaises(found)])
                   /\ UNCHANGED target_head
    /\ mpc' = "idle"
    /\ UNCHANGED <<margs, mentry, mcalls>>
    /\ UNCHANGED notm

MNext == MStart \/ MDetectConflicts \/ MRunQualityGates \/ MMerge

\* ------------------------------------------------------------------------
\* DependencyGraph
\* ------------------------------------------------------------------------

MaxAdds == 3

\* The task ids of the plans.
GraphIds == {"t1", "t2", "t3"}

\* The dependencies lists of the nodes that are added.
NodeDependencies ==
    {<<>>} \cup {<<a>> : a \in GraphIds}
           \cup {<<"t1", "t2">>, <<"t1", "t3">>, <<"t2", "t3">>}

\* The ids of self.nodes.
Nodes == {node_order[i] : i \in DOMAIN node_order}

\* add_node: for dep_id in node.dependencies: self.edges[dep_id].append(id)
RECURSIVE AddEdges(_, _, _, _)
AddEdges(e, dependencies, i, task_id) ==
    IF i > Len(dependencies) THEN e
    ELSE AddEdges([e EXCEPT ![dependencies[i]] = Append(@, task_id)],
                  dependencies, i + 1, task_id)

\* has_cycle that returns only the node found on the stack.
FoundCycle_NodeOnly(path, dependent_id) == <<dependent_id>>

\* has_cycle, on a dependent that is on the recursion stack:
\* return path + [dependent_id]
FoundCycle(path, dependent_id) == Append(path, dependent_id)

\* has_cycle(task_id, path) of validate_acyclic, with the two sets it
\* shares between calls; cycle is <<>> where the code returns None.
RECURSIVE HasCycle(_, _, _, _, _), Dependents_Loop(_, _, _, _, _, _)
HasCycle(e, task_id, path, visited, rec_stack) ==
    LET r == Dependents_Loop(e, task_id, 1, Append(path, task_id),
                             visited \cup {task_id}, rec_stack \cup {task_id})
    IN  IF r.cycle # <<>> THEN r
        ELSE [r EXCEPT !.rec_stack = @ \ {task_id}]

\* for dependent_id in self.edges.get(task_id, []), from the i-th on
Dependents_Loop(e, task_id, i, path, visited, rec_stack) ==
    IF i > Len(e[task_id])
    THEN [cycle |-> <<>>, visited |-> visited, rec_stack |-> rec_stack]
    ELSE LET dependent_id == e[task_id][i]
         IN  IF dependent_id \notin visited
             THEN LET r == HasCycle(e, dependent_id, path, visited, rec_stack)
                  IN  IF r.cycle # <<>> THEN r
                      ELSE Dependents_Loop(e, task_id, i + 1, path,
                                           r.visited, r.rec_stack)
             ELSE IF dependent_id \in rec_stack
             THEN [cycle |-> FoundCycle(path, dependent_id),
                   visited |-> visited, rec_stack |-> rec_stack]
             ELSE Dependents_Loop(e, task_id, i + 1, path, visited, rec_stack)

\* for task_id in self.nodes, from the k-th key on
RECURSIVE Nodes_Loop(_, _, _, _, _)
Nodes_Loop(order, e, k, visited, rec_stack) ==
    IF k > Len(order) THEN <<>>
    ELSE IF order[k] \in visited
    THEN Nodes_Loop(order, e, k + 1, visited, rec_stack)
    ELSE LET r == HasCycle(e, order[k], <<>>, visited, rec_stack)
         IN  IF r.cycle # <<>> THEN r.cycle
             ELSE Nodes_Loop(order, e, k + 1, r.visited, r.rec_stack)

\* validate_acyclic: (is_valid, cycle)
ValidateAcyclic(order, e) ==
    LET cycle == Nodes_Loop(order, e, 1, {}, {})
    IN  [is_valid |-> cycle = <<>>, cycle |-> cycle]

\* An in-degree that starts at zero for every node.
InitialInDegree_Zero(dependencies) == 0

\* in_degree = {task_id: len(node.dependencies) ...}
InitialInDegree(dependencies) == Len(dependencies)

\* The while loop of get_execution_order; levels are kept as sets, for
\* remaining is a set and the order inside a level is that of its iteration.
RECURSIVE Levels_Loop(_, _, _, _)
Levels_Loop(e, remaining, in_degree, levels) ==
    IF remaining = {} THEN [raised |-> FALSE, levels |-> levels]
    ELSE LET current_level == {t \in remaining : in_degree[t] = 0}
         IN  IF current_level = {}
             THEN [raised |-> TRUE, levels |-> <<>>]
             ELSE Levels_Loop(e, remaining \ current_level,
                     [d \in DOMAIN in_degree |->
                         in_degree[d] - Cardinality(UNION
                             {{<<t, i>> : i \in {j \in DOMAIN e[t] : e[t][j] = d}} :
                                 t \in current_level})],
                     Append(levels, current_level))

\* get_execution_order
GetExecutionOrder(order, deps, e) ==
    IF ~ValidateAcyclic(order, e).is_valid
    THEN [raised |-> TRUE, levels |-> <<>>]
    ELSE Levels_Loop(e, {order[i] : i \in DOMAIN order},
                     [t \in {order[i] : i \in DOMAIN order} |->
                         InitialInDegree(deps[t])],
                     <<>>)

\* list.remove(x): the list without the first occurrence of x.
RECURSIVE ListRemove(_, _)
ListRemove(list, x) ==
    IF list = <<>> THEN <<>>
    ELSE IF Head(list) = x THEN Tail(list)
    ELSE <<Head(list)>> \o ListRemove(Tail(list), x)

\* mark_completed: for dependent_id in self.edges.get(task_id, []), from the
\* i-th on; the dependencies of the nodes and newly_ready as they stand.
RECURSIVE MarkCompleted_Loop(_, _, _, _, _, _)
MarkCompleted_Loop(nodes, deps, e, task_id, i, newly_ready) ==
    IF i > Len(e[task_id])
    THEN [dependencies |-> deps, newly_ready |-> newly_ready]
    ELSE LET dependent_id == e[task_id][i]
             left == IF task_id \in Range(deps[dependent_id])
                     THEN ListRemove(deps[dependent_id], task_id)
                     ELSE deps[dependent_id]
         IN  IF dependent_id \notin nodes
             THEN MarkCompleted_Loop(nodes, deps, e, task_id, i + 1,
                                     newly_ready)
             ELSE MarkCompleted_Loop(nodes,
                      [deps EXCEPT ![dependent_id] = left], e, task_id, i + 1,
                      IF left = <<>> THEN Append(newly_ready, dependent_id)
                      ELSE newly_ready)

\* DependencyGraph.mark_completed(task_id): an unknown id returns [].
GraphMarkCompleted(nodes, deps, e, task_id) ==
    IF task_id \notin nodes
    THEN [dependencies |-> deps, newly_ready |-> <<>>]
    ELSE MarkCompleted_Loop(nodes, deps, e, task_id, 1, <<>>)

NoGraphCall == [op |-> "init", is_valid |-> TRUE, cycle |-> <<>>,
                raised |-> FALSE, levels |-> <<>>,
                task_id |-> "", newly_ready |-> <<>>,
                before |-> [t \in GraphIds |-> <<>>]]

GInit ==
    /\ node_order = <<>>
    /\ node_deps = [t \in GraphIds |-> <<>>]
    /\ edges = [t \in GraphIds |-> <<>>]
    /\ glast = NoGraphCall
    /\ gadds = 0

\* add_node(node); a node with a known id replaces the old one in place
GAddNode ==
    /\ gadds < MaxAdds
    /\ gadds' = gadds + 1
    /\ \E task_id \in GraphIds, dependencies \in NodeDependencies :
          /\ node_order' = IF task_id \in Nodes THEN node_order
                           ELSE Append(node_order, task_id)
          /\ node_deps' = [node_deps EXCEPT ![task_id] = dependencies]
          /\ edges' = AddEdges(edges, dependencies, 1, task_id)
    /\ glast' = [NoGraphCall EXCEPT !.op = "add_node"]
    /\ UNCHANGED notg

\* validate_acyclic()
GValidateAcyclic ==
    /\ LET r == ValidateAcyclic(node_order, edges)
       IN  glast' = [NoGraphCall EXCEPT !.op = "validate_acyclic",
                                        !.is_valid = r.is_valid,
                                        !.cycle = r.cycle]
    /\ UNCHANGED <<node_order, node_deps, edges, gadds>>
    /\ UNCHANGED notg

\* get_execution_order()
GGetExecutionOrder ==
    /\ LET r == GetExecutionOrder(node_order, node_deps, edges)
       IN  glast' = [NoGraphCall EXCEPT !.op = "get_execution_order",
                                        !.raised = r.raised,
                                        !.levels = r.levels]
    /\ UNCHANGED <<node_order, node_deps, edges, gadds>>
    /\ UNCHANGED notg

GNext == GAddNode \/ GValidateAcyclic \/ GGetExecutionOrder

\* mark_completed(task_id)
GMarkCompleted ==
    /\ \E task_id \in GraphIds :
          LET r == GraphMarkCompleted(Nodes, node_deps, edges, task_id)
          IN  /\ node_deps' = r.dependencies
              /\ glast' = [NoGraphCall EXCEPT !.op = "mark_completed",
                                               !.task_id = task_id,
                                               !.newly_ready = r.newly_ready,
                                               !.before = node_deps]
    /\ UNCHANGED <<node_order, edges, gadds>>
    /\ UNCHANGED notg

\* A plan is built, tasks complete, and the order is asked for at any time.
GRunNext == GNext \/ GMarkCompleted

\* ------------------------------------------------------------------------
\* RedisLock.acquire under a clock: callers that use the same timeout
\* ------------------------------------------------------------------------

MaxTime == 4

\* The timeout every caller passes: the TTL of the record (ex=timeout) and
\* the time acquire goes on trying (deadline = time.time() + timeout).
LockTimeout == 2

\* The resource the callers contend for.
Contended == {"a"}

\* The call of acquire a caller is in or, once pc is "idle" again, was last
\* in. rival: the first lock id another caller was given on the resource
\* while this call was trying (NoLock: none).
NotAcquiring == [pc |-> "idle", resource |-> "", deadline |-> 0,
                 rival |-> NoLock]

\* A record whose time runs out before the deadline of a call that was
\* already trying when it was set.
ExpiresAt_Early(t, timeout) == t + timeout - 1

\* redis.set(lock_key, lock_id, ex=timeout, nx=True): the key lives for
\* timeout from the moment it is set.
ExpiresAt(t, timeout) == t + timeout

\* while time.time() < deadline: the loop is left when this is false.
DeadlinePassed(t, deadline) == t >= deadline

\* A store that never expires a key.
Expires_Never(at, t) == FALSE

\* EX: the store deletes the key once its time has run out.
Expires(at, t) == at # 0 /\ at <= t

TInit ==
    /\ now = 0
    /\ ttl_at = [r \in Resources |-> 0]
    /\ acq = [c \in Callers |-> NotAcquiring]

\* acquire(resource, timeout) is called: deadline = time.time() + timeout
TStart ==
    /\ now + LockTimeout <= MaxTime
    /\ \E c \in Callers, r \in Contended :
          /\ acq[c].pc = "idle"
          /\ acq' = [acq EXCEPT ![c] = [pc |-> "trying", resource |-> r,
                                        deadline |-> now + LockTimeout,
                                        rival |-> NoLock]]
    /\ UNCHANGED <<now, ttl_at, lvars>>
    /\ UNCHANGED nott

\* while time.time() < deadline: the loop goes on to an attempt. The SET
\* is awaited, so that time can pass before the store executes it.
TCheck ==
    /\ \E c \in Callers :
          /\ acq[c].pc = "trying"
          /\ ~DeadlinePassed(now, acq[c].deadline)
          /\ acq' = [acq EXCEPT ![c].pc = "setting"]
    /\ UNCHANGED <<now, ttl_at, lvars>>
    /\ UNCHANGED nott

\* The store executes SET NX EX and finds the key absent: acquire returns
\* the Lock.
TAcquire ==
    /\ next_id <= MaxLockIds
    /\ now + LockTimeout <= MaxTime
    /\ \E c \in Callers :
          /\ acq[c].pc = "setting"
          /\ SetNxOk(lock_store, acq[c].resource)
          /\ lock_store' = [lock_store EXCEPT ![acq[c].resource] = next_id]
          /\ ttl_at' = [ttl_at EXCEPT ![acq[c].resource] =
                                    ExpiresAt(now, LockTimeout)]
          /\ held' = [held EXCEPT ![c] = @ \cup {Lock(acq[c].resource, next_id)}]
          /\ llast' = [op |-> "acquire", caller |-> c,
                       lock |-> Lock(acq[c].resource, next_id), ret |-> TRUE]
          /\ acq' = [d \in Callers |->
                        IF d = c THEN [acq[c] EXCEPT !.pc = "idle"]
                        ELSE IF /\ acq[d].pc \in {"trying", "setting"}
                                /\ acq[d].resource = acq[c].resource
                                /\ acq[d].rival = NoLock
                             THEN [acq[d] EXCEPT !.rival = next_id]
                             ELSE acq[d]]
    /\ next_id' = next_id + 1
    /\ UNCHANGED <<now, expired, am>>
    /\ UNCHANGED nott

\* The store finds the key: the attempt fails, the caller sleeps and goes
\* back to the head of the loop.
TRetry ==
    /\ \E c \in Callers :
          /\ acq[c].pc = "setting"
          /\ ~SetNxOk(lock_store, acq[c].resource)
          /\ acq' = [acq EXCEPT ![c].pc = "trying"]
    /\ UNCHANGED <<now, ttl_at, lvars>>
    /\ UNCHANGED nott

\* The loop is left at the deadline: raise LockTimeoutError
TTimeout ==
    /\ \E c \in Callers :
          /\ acq[c].pc = "trying"
          /\ DeadlinePassed(now, acq[c].deadline)
          /\ llast' = [op |-> "acquire", caller |-> c,
                       lock |-> Lock(acq[c].resource, NoLock), ret |-> FALSE]
          /\ acq' = [acq EXCEPT ![c].pc = "idle"]
    /\ UNCHANGED <<now, ttl_at, lock_store, next_id, held, expired, am>>
    /\ UNCHANGED nott

\* release(lock) of a Lock object the caller has.
TRelease ==
    /\ \E c \in Callers : \E l \in held[c] :
          /\ lock_store' = StoreAfterRelease(lock_store, l)
          /\ ttl_at' = IF ReleaseReturns(lock_store, l)
                       THEN [ttl_at EXCEPT ![l.resource] = 0] ELSE ttl_at
          /\ held' = [held EXCEPT ![c] = @ \ {l}]
          /\ expired' = expired \ {l.lock_id}
          /\ llast' = [op |-> "release", caller |-> c, lock |-> l,
                       ret |-> ReleaseReturns(lock_store, l)]
    /\ UNCHANGED <<now, acq, next_id, am>>
    /\ UNCHANGED nott

\* Time passes; the store deletes the keys whose time has run out.
Tick ==
    /\ now < MaxTime
    /\ now' = now + 1
    /\ lock_store' = [r \in Resources |->
                         IF Expires(ttl_at[r], now + 1) THEN NoLock
                         ELSE lock_store[r]]
    /\ ttl_at' = [r \in Resources |->
                     IF Expires(ttl_at[r], now + 1) THEN 0 ELSE ttl_at[r]]
    /\ expired' = expired \cup
                    {lock_store[r] : r \in {x \in Resources :
                                               Expires(ttl_at[x], now + 1)}}
    /\ UNCHANGED <<acq, next_id, held, am, llast>>
    /\ UNCHANGED nott

TNext == TStart \/ TCheck \/ TAcquire \/ TRetry \/ TTimeout \/ TRelease \/ Tick

\* The additional_time a caller passes to extend_lock.
ExtendTimes == 1..LockTimeout

\* An extend script that sets the expiry of whatever record is there.
ExtendReturns_NoCompare(store, l) == store[l.resource] # NoLock

\* The extend script: GET == ARGV[1], then EXPIRE and its 1, otherwise 0.
ExtendReturns(store, l) == store[l.resource] = l.lock_id

\* extend_lock(lock, additional_time) of a Lock object the caller has:
\* EXPIRE sets the time the key has left to additional_time.
TExtend ==
    /\ \E c \in Callers : \E l \in held[c] : \E t \in ExtendTimes :
          /\ now + t <= MaxTime
          /\ ttl_at' = IF ExtendReturns(lock_store, l)
                       THEN [ttl_at EXCEPT ![l.resource] = now + t] ELSE ttl_at
          /\ llast' = [op |-> "extend", caller |-> c, lock |-> l,
                       ret |-> ExtendReturns(lock_store, l),
                       time |-> t, at |-> now]
    /\ UNCHANGED <<now, acq, lock_store, next_id, held, expired, am>>
    /\ UNCHANGED nott

XNext == TNext \/ TExtend

\* ------------------------------------------------------------------------
\* WorkerAgent._acquire_file_locks, for one task and a free lock store
\* ------------------------------------------------------------------------
MaxFiles == 2

\* The paths of a project, in lexical order.
PathOrder == <<"a", "b", "c">>
FilePaths == Range(PathOrder)

\* Task.files_to_create and Task.files_to_modify: lists of paths, each path
\* once in a list.
FileLists ==
    {fs \in UNION {[1..n -> FilePaths] : n \in 0..MaxFiles} :
        \A i, j \in DOMAIN fs : i # j => fs[i] # fs[j]}

\* all_files = task.files_to_create + task.files_to_modify
AllFiles(files_to_create, files_to_modify) == files_to_create \o files_to_modify

\* for file_path in all_files: acquire, append; on an exception release what
\* was acquired and raise LockAcquisitionError. A path the worker holds
\* already answers the SET like a path another worker holds: the acquire
\* waits, and raises LockTimeoutError unless an attempt made before the
\* deadline reaches the store once the earlier record has run out (late).
RECURSIVE FileLocks_Loop(_, _, _, _, _, _)
FileLocks_Loop(all_files, i, late, store, locks, acc) ==
    IF i > Len(all_files)
    THEN [acc EXCEPT !.acquired_locks = locks, !.store = store]
    ELSE LET r == all_files[i]
             acc1 == [acc EXCEPT !.requests = Append(@, r),
                                 !.waited_on_own = @ \/ ~SetNxOk(store, r)]
         IN  IF SetNxOk(store, r) \/ late
             THEN FileLocks_Loop(all_files, i + 1, late,
                                 [store EXCEPT ![r] = i],
                                 Append(locks, Lock(r, i)), acc1)
             ELSE [acc1 EXCEPT !.raised = TRUE,
                               !.acquired_locks = <<>>,
                               !.store = ReleaseFileLocks(store, locks)]

AcquireFileLocks(files_to_create, files_to_modify, late) ==
    FileLocks_Loop(AllFiles(files_to_create, files_to_modify), 1, late,
                   [r \in FilePaths |-> NoLock], <<>>,
                   [requests |-> <<>>, waited_on_own |-> FALSE,
                    raised |-> FALSE, acquired_locks |-> <<>>,
                    store |-> [r \in FilePaths |-> NoLock]])

NoFileLocksCall ==
    [op |-> "init", files_to_create |-> <<>>, files_to_modify |-> <<>>,
     late |-> FALSE, out |-> AcquireFileLocks(<<>>, <<>>, FALSE)]

FInit == flast = NoFileLocksCall

\* _acquire_file_locks(task)
FAcquireFileLocks ==
    /\ \E files_to_create \in FileLists, files_to_modify \in FileLists,
          late \in BOOLEAN :
          flast' = [op |-> "_acquire_file_locks",
                    files_to_create |-> files_to_create,
                    files_to_modify |-> files_to_modify,
                    late |-> late,
                    out |-> AcquireFileLocks(files_to_create, files_to_modify,
                                             late)]
    /\ UNCHANGED notf

FNext == FAcquireFileLocks

\* ------------------------------------------------------------------------
\* RedisQueue.dequeue and mark_completed, one store command at a time
\* ------------------------------------------------------------------------

\* The dependencies lists of the plan the callers run: the last task waits
\* for the first two, or for the first.
StepDependencies(t) == IF t = MaxTasks THEN {{1, 2}, {1}} ELSE {{}}

Idle == [pc |-> "idle", task |-> NoTask, todo |-> <<>>]

NotEnqueuing == [pc |-> "idle", task |-> NoTask, dependencies |-> {},
                 todo |-> <<>>]

KInit ==
    /\ proc = [c \in Callers |-> Idle]
    /\ pushes = [t \in TaskIds |-> 0]
    /\ enq = NotEnqueuing

\* The planner enqueues a task of the plan.
KEnqueue ==
    /\ \E t \in TaskIds : \E dependencies \in StepDependencies(t) :
          /\ ~task_hash[t].present
          /\ Enqueue(t, dependencies)
          /\ pushes' = [pushes EXCEPT ![t] = IF queue' # queue THEN @ + 1 ELSE @]
    /\ UNCHANGED <<qcalls, proc>>
    /\ UNCHANGED notk

\* dequeue: result = await self.redis.brpop(queue_key, timeout=timeout)
KBrpop ==
    /\ \E c \in Callers, a \in AgentTypes :
          /\ proc[c].pc = "idle"
          /\ queue[a] # <<>>
          /\ queue' = [queue EXCEPT ![a] = SubSeq(@, 1, Len(@) - 1)]
          /\ proc' = [proc EXCEPT ![c] = [pc |-> "hgetall",
                                          task |-> queue[a][Len(queue[a])],
                                          todo |-> <<>>]]
    /\ UNCHANGED <<status, task_hash, deps_set, pending, qlast, qcalls, pushes>>
    /\ UNCHANGED notk

\* dequeue: task_data = await self.redis.hgetall(...); None when it is empty
KHgetall ==
    /\ \E c \in Callers :
          /\ proc[c].pc = "hgetall"
          /\ proc' = [proc EXCEPT ![c] = IF task_hash[proc[c].task].present
                                         THEN [@ EXCEPT !.pc = "set_status"]
                                         ELSE Idle]
    /\ UNCHANGED <<qvars, pushes>>
    /\ UNCHANGED notk

\* dequeue: await self.redis.set(f"task:{task_id}:status", "in_progress")
KSetInProgress ==
    /\ \E c \in Callers :
          /\ proc[c].pc = "set_status"
          /\ status' = [status EXCEPT ![proc[c].task] = "in_progress"]
          /\ proc' = [proc EXCEPT ![c].pc = "working"]
    /\ UNCHANGED <<task_hash, deps_set, pending, queue, qlast, qcalls, pushes>>
    /\ UNCHANGED notk

\* A store command of dequeue after the pop raises (a connection error):
\* dequeue catches redis.TimeoutError around brpop only.
KDequeueRaises ==
    /\ \E c \in Callers :
          /\ proc[c].pc \in {"hgetall", "set_status"}
          /\ proc' = [proc EXCEPT ![c].pc = "raised"]
    /\ UNCHANGED <<qvars, pushes>>
    /\ UNCHANGED notk

\* mark_completed: await self.redis.set(f"task:{task_id}:status", status)
\* (and the hset of the result, which no step reads)
KSetStatus ==
    /\ \E c \in Callers, success \in BOOLEAN :
          /\ proc[c].pc = "working"
          /\ status' = [status EXCEPT ![proc[c].task] =
                           IF success THEN "completed" ELSE "failed"]
          /\ proc' = [proc EXCEPT ![c] = IF PromotesOn(success)
                                         THEN [@ EXCEPT !.pc = "smembers"]
                                         ELSE Idle]
    /\ UNCHANGED <<task_hash, deps_set, pending, queue, qlast, qcalls, pushes>>
    /\ UNCHANGED notk

\* The pass goes on to the next pending task, or the call returns.
NextPending(p) ==
    IF Len(p.todo) <= 1 THEN Idle
    ELSE [p EXCEPT !.pc = "deps", !.todo = Tail(@)]

\* _check_and_enqueue_dependents:
\* pending_task_ids = await self.redis.smembers("task:pending")
KSmembersPending ==
    /\ \E c \in Callers : \E order \in Orders(pending) :
          /\ proc[c].pc = "smembers"
          /\ proc' = [proc EXCEPT ![c] = IF order = <<>> THEN Idle
                                         ELSE [@ EXCEPT !.pc = "deps",
                                                        !.todo = order]]
    /\ UNCHANGED <<qvars, pushes>>
    /\ UNCHANGED notk

\* dependencies = await self.redis.smembers(deps_key); continue when the
\* completed id is not among them
KSmembersDeps ==
    /\ \E c \in Callers :
          /\ proc[c].pc = "deps"
          /\ proc' = [proc EXCEPT ![c] =
                         IF proc[c].task \in deps_set[Head(proc[c].todo)]
                         THEN [@ EXCEPT !.pc = "srem"]
                         ELSE NextPending(@)]
    /\ UNCHANGED <<qvars, pushes>>
    /\ UNCHANGED notk

\* await self.redis.srem(deps_key, completed_task_id)
KSremDep ==
    /\ \E c \in Callers :
          /\ proc[c].pc = "srem"
          /\ deps_set' = [deps_set EXCEPT ![Head(proc[c].todo)] =
                             @ \ {proc[c].task}]
          /\ proc' = [proc EXCEPT ![c].pc = "scard"]
    /\ UNCHANGED <<status, task_hash, pending, queue, qlast, qcalls, pushes>>
    /\ UNCHANGED notk

\* remaining = await self.redis.scard(deps_key); if remaining == 0
KScard ==
    /\ \E c \in Callers :
          /\ proc[c].pc = "scard"
          /\ proc' = [proc EXCEPT ![c] =
                         IF Cardinality(deps_set[Head(proc[c].todo)]) = 0
                         THEN [@ EXCEPT !.pc = "srem_pending"]
                         ELSE NextPending(@)]
    /\ UNCHANGED <<qvars, pushes>>
    /\ UNCHANGED notk

\* await self.redis.srem("task:pending", task_id)
KSremPending ==
    /\ \E c \in Callers :
          /\ proc[c].pc = "srem_pending"
          /\ pending' = pending \ {Head(proc[c].todo)}
          /\ proc' = [proc EXCEPT ![c].pc = "lpush"]
    /\ UNCHANGED <<status, task_hash, deps_set, queue, qlast, qcalls, pushes>>
    /\ UNCHANGED notk

\* task_data = await self.redis.hgetall(...); if task_data:
\* await self.redis.lpush(queue_key, task_id)
KLpush ==
    /\ \E c \in Callers :
          /\ proc[c].pc = "lpush"
          /\ LET d == Head(proc[c].todo)
             IN  IF task_hash[d].present
                 THEN /\ queue' = [queue EXCEPT ![task_hash[d].agent_type] =
                                      LPush(@, d)]
                      /\ pushes' = [pushes EXCEPT ![d] = @ + 1]
                 ELSE UNCHANGED <<queue, pushes>>
          /\ proc' = [proc EXCEPT ![c] = NextPending(@)]
    /\ UNCHANGED <<status, task_hash, deps_set, pending, qlast, qcalls>>
    /\ UNCHANGED notk

KNext ==
    \/ KEnqueue \/ KBrpop \/ KHgetall \/ KSetInProgress \/ KDequeueRaises
    \/ KSetStatus \/ KSmembersPending \/ KSmembersDeps \/ KSremDep \/ KScard
    \/ KSremPending \/ KLpush

\* enqueue(task) of the planner, one store command at a time:
\* await self.redis.hset(task_key, mapping=task_data)
EHset ==
    /\ enq.pc = "idle"
    /\ \E t \in TaskIds : \E dependencies \in StepDependencies(t) :
          /\ ~task_hash[t].present
          /\ task_hash' = [task_hash EXCEPT ![t] =
                              [present |-> TRUE, agent_type |-> AgentTypeOf(t),
                               dependencies |-> dependencies]]
          /\ enq' = [pc |-> "set_pending", task |-> t,
                     dependencies |-> dependencies, todo |-> <<>>]
    /\ UNCHANGED <<status, deps_set, pending, queue, qlast, qcalls>>
    /\ UNCHANGED kvars
    /\ UNCHANGED note

\* await self.redis.set(f"task:{task.id}:status", "pending");
\* if task.dependencies:
ESetPending ==
    /\ enq.pc = "set_pending"
    /\ status' = [status EXCEPT ![enq.task] = "pending"]
    /\ enq' = [enq EXCEPT !.pc = IF enq.dependencies # {} THEN "sadd_deps"
                                 ELSE "lpush"]
    /\ UNCHANGED <<task_hash, deps_set, pending, queue, qlast, qcalls>>
    /\ UNCHANGED kvars
    /\ UNCHANGED note

\* await self.redis.sadd(deps_key, *task.dependencies)
ESaddDeps ==
    /\ enq.pc = "sadd_deps"
    /\ deps_set' = [deps_set EXCEPT ![enq.task] = @ \cup enq.dependencies]
    /\ enq' = [enq EXCEPT !.pc = "smembers"]
    /\ UNCHANGED <<status, task_hash, pending, queue, qlast, qcalls>>
    /\ UNCHANGED kvars
    /\ UNCHANGED note

\* _check_dependencies_satisfied:
\* dependencies = await self.redis.smembers(deps_key)
ESmembers ==
    /\ enq.pc = "smembers"
    /\ \E order \in Orders(deps_set[enq.task]) :
          enq' = [enq EXCEPT !.pc = IF order = <<>> THEN "lpush" ELSE "get",
                             !.todo = order]
    /\ UNCHANGED qvars
    /\ UNCHANGED kvars
    /\ UNCHANGED note

\* status = await self.redis.get(f"task:{dep_id}:status"): return False on
\* the first that is not completed, True after the last.
EGetStatus ==
    /\ enq.pc = "get"
    /\ enq' = IF status[Head(enq.todo)] # "completed"
              THEN [enq EXCEPT !.pc = "sadd_pending", !.todo = <<>>]
              ELSE [enq EXCEPT !.pc = IF Len(enq.todo) = 1 THEN "lpush"
                                      ELSE "get",
                               !.todo = Tail(@)]
    /\ UNCHANGED qvars
    /\ UNCHANGED kvars
    /\ UNCHANGED note

\* await self.redis.sadd("task:pending", task.id); return
ESaddPending ==
    /\ enq.pc = "sadd_pending"
    /\ pending' = pending \cup {enq.task}
    /\ enq' = [enq EXCEPT !.pc = "idle"]
    /\ UNCHANGED <<status, task_hash, deps_set, queue, qlast, qcalls>>
    /\ UNCHANGED kvars
    /\ UNCHANGED note

\* await self.redis.lpush(queue_key, task.id)
ELpush ==
    /\ enq.pc = "lpush"
    /\ queue' = [queue EXCEPT ![AgentTypeOf(enq.task)] = LPush(@, enq.task)]
    /\ pushes' = [pushes EXCEPT ![enq.task] = @ + 1]
    /\ enq' = [enq EXCEPT !.pc = "idle"]
    /\ UNCHANGED <<status, task_hash, deps_set, pending, qlast, qcalls, proc>>
    /\ UNCHANGED note

\* The store commands of enqueue, dequeue and mark_completed calls that run
\* at the same time.
ENext ==
    \/ EHset \/ ESetPending \/ ESaddDeps \/ ESmembers \/ EGetStatus
    \/ ESaddPending \/ ELpush
    \/ KBrpop \/ KHgetall \/ KSetInProgress \/ KDequeueRaises
    \/ KSetStatus \/ KSmembersPending \/ KSmembersDeps \/ KSremDep \/ KScard
    \/ KSremPending \/ KLpush

\* ------------------------------------------------------------------------
\* SecurityScanner.validate, and the pipeline that runs the gate
\* ------------------------------------------------------------------------
MaxIssues == 3

\* The issues _scan_for_secrets reports: all of severity error.
SecretIssues == UNION {[1..n -> {"error"}] : n \in 0..MaxIssues}

\* The issues _scan_for_vulnerabilities reports: warnings and infos.
VulnIssues == UNION {[1..n -> {"warning", "info"}] : n \in 0..MaxIssues}

\* status = ValidationStatus.FAILED if issues else ValidationStatus.PASSED
GateStatus(issues) == IF issues # <<>> THEN "failed" ELSE "passed"

\* validate() of the scanner
Validate(secret_issues, vuln_issues) ==
    LET issues == secret_issues \o vuln_issues
    IN  [status |-> GateStatus(issues), issues |-> issues]

\* How a run of mypy or tsc on the worktree goes: there are no files of the
\* language, the tool is not installed, it reports issues (none, or errors
\* and warnings), it exceeds its timeout, or it cannot be run.
ToolRuns ==
    {[kind |-> k, issues |-> <<>>] :
        k \in {"no_files", "unavailable", "timeout", "raises"}}
    \cup {[kind |-> "ran", issues |-> is] :
            is \in UNION {[1..n -> {"error", "warning"}] : n \in 0..MaxIssues}}

\* _check_python_types / _check_typescript_types: the issues parsed from the
\* output of the tool; except subprocess.TimeoutExpired and except
\* Exception log the event and fall through to return issues.
CheckTypes(run) == IF run.kind = "ran" THEN run.issues ELSE <<>>

\* validate() of the type checker
TypeCheck(python, typescript) ==
    LET issues == CheckTypes(python) \o CheckTypes(typescript)
    IN  [status |-> GateStatus(issues), issues |-> issues]

NoValidate ==
    [op |-> "init", status |-> "passed", issues |-> <<>>,
     stop_on_failure |-> FALSE, all_passed |-> TRUE, timed_out |-> FALSE]

VInit == vlast = NoValidate

\* A pipeline that holds the scanner runs: validate(), then the bookkeeping
\* of run_all on its result.
VValidate ==
    /\ \E secret_issues \in SecretIssues, vuln_issues \in VulnIssues,
          stop_on_failure \in BOOLEAN :
          LET res == Validate(secret_issues, vuln_issues)
          IN  vlast' = [op |-> "validate", status |-> res.status,
                        issues |-> res.issues,
                        stop_on_failure |-> stop_on_failure,
                        all_passed |->
                            RunAll(<<[skippable |-> FALSE,
                                      outcome |-> res.status]>>,
                                   stop_on_failure).all_passed,
                        timed_out |-> FALSE]
    /\ UNCHANGED notv

\* A pipeline that holds the type checker runs, as in _run_quality_gates;
\* all_passed is what merge_agent_work decides on.
VTypeCheck ==
    /\ \E python \in ToolRuns, typescript \in ToolRuns,
          stop_on_failure \in BOOLEAN :
          LET res == TypeCheck(python, typescript)
          IN  vlast' = [op |-> "type_check", status |-> res.status,
                        issues |-> res.issues,
                        stop_on_failure |-> stop_on_failure,
                        all_passed |->
                            RunAll(<<[skippable |-> FALSE,
                                      outcome |-> res.status]>>,
                                   stop_on_failure).all_passed,
                        timed_out |-> "timeout" \in {python.kind,
                                                     typescript.kind}]
    /\ UNCHANGED notv

VNext == VValidate \/ VTypeCheck

\* ------------------------------------------------------------------------
\* WorktreeManager: the worktrees and branches of the agents
\* ------------------------------------------------------------------------

\* branch_name of spawn: agent-<agent_id>.
BranchNames == {"agent-1", "agent-2", "agent-3"}

\* The base branches callers name; the repository has "main" only.
BaseBranches == {"main", "release"}
KnownBase(base_branch) == base_branch = "main"

\* git worktree add -b <branch> <path> <base>: git refuses to create a
\* branch that exists, to start from a commit-ish it cannot resolve, and to
\* check out into a path that exists.
WorktreeAddFails(heads, paths, branch_name, base_branch) ==
    \/ branch_name \in heads
    \/ ~KnownBase(base_branch)
    \/ branch_name \in paths

\* remove_worktree: nothing to do without the directory; git worktree remove
\* --force deletes the directory and the worktree's registration, and leaves
\* the branch.
RemoveWorktree(paths, branch_name) == paths \ {branch_name}

NoRepoCall ==
    [op |-> "none", branch |-> "agent-1", base |-> "main",
     existed |-> FALSE, path_existed |-> FALSE, raised |-> FALSE]

RInit ==
    /\ branches = {}
    /\ worktree_paths = {}
    /\ rlast = NoRepoCall

\* create_worktree(branch_name, base_branch), as spawn calls it: an existing
\* directory is removed, then git worktree add -b runs; its error is raised.
CreateWorktree ==
    \E branch_name \in BranchNames : \E base_branch \in BaseBranches :
       LET paths == IF branch_name \in worktree_paths
                    THEN RemoveWorktree(worktree_paths, branch_name)
                    ELSE worktree_paths
           fails == WorktreeAddFails(branches, paths, branch_name, base_branch)
       IN  /\ branches' = IF fails THEN branches ELSE branches \cup {branch_name}
           /\ worktree_paths' = IF fails THEN paths ELSE paths \cup {branch_name}
           /\ rlast' = [op |-> "create_worktree", branch |-> branch_name,
                        base |-> base_branch,
                        existed |-> branch_name \in branches,
                        path_existed |-> branch_name \in worktree_paths,
                        raised |-> fails]
           /\ UNCHANGED notr

\* cleanup of a worker: remove_worktree(self.worktree_path).
Cleanup ==
    \E branch_name \in BranchNames :
       /\ worktree_paths' = RemoveWorktree(worktree_paths, branch_name)
       /\ rlast' = [op |-> "cleanup", branch |-> branch_name, base |-> "main",
                    existed |-> branch_name \in branches,
                    path_existed |-> branch_name \in worktree_paths,
                    raised |-> FALSE]
       /\ UNCHANGED branches
       /\ UNCHANGED notr

\* cleanup_agent_branch(agent_branch): git branch -d, which refuses a branch
\* that is absent, checked out in a worktree, or not merged; the error is
\* logged and the call returns False.
CleanupAgentBranch ==
    \E agent_branch \in BranchNames : \E merged \in BOOLEAN :
       LET fails == \/ agent_branch \notin branches
                    \/ agent_branch \in worktree_paths
                    \/ ~merged
       IN  /\ branches' = IF fails THEN branches ELSE branches \ {agent_branch}
           /\ rlast' = [op |-> "cleanup_agent_branch", branch |-> agent_branch,
                        base |-> "main",
                        existed |-> agent_branch \in branches,
                        path_existed |-> agent_branch \in worktree_paths,
                        raised |-> fails]
           /\ UNCHANGED worktree_paths
           /\ UNCHANGED notr

RNext == CreateWorktree \/ Cleanup \/ CleanupAgentBranch

\* ------------------------------------------------------------------------
\* Specifications
\* ------------------------------------------------------------------------

\* The state after construction: an empty store.
Init == QInit /\ LInit /\ WInit /\ MInit /\ PInit /\ GInit /\ TInit /\ FInit
        /\ KInit /\ VInit /\ RInit

\* Any sequence of enqueue, dequeue and mark_completed calls.
SpecQueue == Init /\ [][QNext]_vars

\* One plan, each task enqueued once and reported once.
SpecPlan == Init /\ [][PlanNext]_vars

\* Callers of acquire and release, and the TTL of the records.
SpecLock == Init /\ [][LNext]_vars

\* One call of acquire_multiple among callers of acquire and release.
SpecBulk == Init /\ [][BulkNext]_vars

\* Workers running the tasks of a plan.
SpecWorker == Init /\ [][WNext]_vars

\* The steps of WNext that move worker w on.
WorkerSteps(w) ==
    WNext /\ (wpc'[w] # wpc[w] \/ acquired_locks'[w] # acquired_locks[w])

\* The same, where the event loop lets every worker take the step it is at.
SpecWorkerFair == SpecWorker /\ \A w \in Callers : WF_vars(WorkerSteps(w))

\* Calls of merge_agent_work, one after the other.
SpecMerge == Init /\ [][MNext]_vars

\* A pipeline that is given validators and run.
SpecPipeline == Init /\ [][PNext]_vars

\* A dependency graph that is built and queried.
SpecGraph == Init /\ [][GNext]_vars

\* The graph of a plan while its tasks complete.
SpecGraphRun == Init /\ [][GRunNext]_vars

\* Callers of acquire and release under a clock.
SpecContend == Init /\ [][TNext]_vars

\* The same, with time that does not stop.
SpecContendFair == SpecContend /\ WF_vars(Tick)

\* Calls of _acquire_file_locks, each for a task of its own.
SpecFileLocks == Init /\ [][FNext]_vars

\* Callers of dequeue and mark_completed whose store commands interleave.
SpecSteps == Init /\ [][KNext]_vars

\* The same, with the store commands of the planner's enqueue calls.
SpecEnqueueSteps == Init /\ [][ENext]_vars

\* Runs of the security gate on worktrees of every kind.
SpecGate == Init /\ [][VNext]_vars

\* Callers of acquire, release and extend_lock under a clock.
SpecExtend == Init /\ [][XNext]_vars

\* Any sequence of spawns, cleanups and branch deletions on one repository.
SpecWorktree == Init /\ [][RNext]_vars

\* ------------------------------------------------------------------------
\* Properties of the task queue
\* ------------------------------------------------------------------------

\* Number of times id t occurs in list q.
Count(q, t) == Cardinality({i \in DOMAIN q : q[i] = t})

\* C1: at the moment dequeue sets a task T to in_progress, every id in T's
\* dependencies list has status completed.
C1_DependencyRespect ==
    (qlast.op = "dequeue" /\ qlast.success) =>
        \A p \in task_hash[qlast.task].dependencies : status[p] = "completed"

\* The transitions of a task's status the data model allows.
AllowedTransitions ==
    { <<"none", "pending">>, <<"pending", "in_progress">>,
      <<"in_progress", "completed">>, <<"in_progress", "failed">> }

\* C7: every change of a task's status is one of pending -> in_progress ->
\* {completed, failed}: no task returns to pending, none becomes completed or
\* failed without having been in_progress, and completed and failed are final.
C7_StatusTransitions ==
    [][\A t \in TaskIds :
          status'[t] # status[t] => <<status[t], status'[t]>> \in AllowedTransitions]_vars

\* A prerequisite of task d other than c that is not completed.
OtherUnmet(d, c) ==
    {p \in task_hash[d].dependencies \ {c} : status[p] # "completed"}

\* C4: a successful mark_completed(T) puts every pending dependent D of T
\* that has no other unmet prerequisite into D's specialty queue exactly once
\* and removes it from the pending set; a dependent with another unmet
\* prerequisite stays pending and enters no queue.
C4_Promotion ==
    [][(qlast'.op = "mark_completed" /\ qlast'.success) =>
          \A d \in pending :
             qlast'.task \in task_hash[d].dependencies =>
                IF OtherUnmet(d, qlast'.task) = {}
                THEN /\ d \notin pending'
                     /\ Count(queue'[AgentTypeOf(d)], d)
                           = Count(queue[AgentTypeOf(d)], d) + 1
                ELSE /\ d \in pending'
                     /\ \A a \in AgentTypes : Count(queue'[a], d) = Count(queue[a], d)]_vars

\* ------------------------------------------------------------------------
\* Properties of the lock manager
\* ------------------------------------------------------------------------

\* The Lock objects callers hold: returned by acquire, not yet released.
HeldLocks == UNION {held[c] : c \in Callers}

\* C2 as stated: between acquire(R) returning a Lock and the matching
\* release, no other acquire(R) returns a Lock: no two Lock objects for one
\* resource are held at the same time.
C2_MutualExclusion ==
    \A l1, l2 \in HeldLocks : l1.resource = l2.resource => l1 = l2

\* C2 as amended: between acquire(R) returning a Lock and the earlier of the
\* matching release and the expiry of the record's TTL, no other acquire(R)
\* returns a Lock: of two Lock objects held for one resource, at least one
\* has lost its record to the TTL.
C2_MutualExclusionUntilExpiry ==
    \A l1, l2 \in HeldLocks :
        (l1.resource = l2.resource /\ l1 # l2) =>
            (l1.lock_id \in expired \/ l2.lock_id \in expired)

\* Two callers hold a Lock for one resource: the first one's record expired
\* and the second one's record is in the store.
C2_Witness ==
    \E c1, c2 \in Callers : \E l1 \in held[c1], l2 \in held[c2] :
        /\ c1 # c2
        /\ l1.resource = l2.resource
        /\ l1.lock_id \in expired
        /\ lock_store[l2.resource] = l2.lock_id
        /\ llast.op = "acquire" /\ llast.ret /\ llast.lock = l2

\* C5: release(L) returns true and deletes the record exactly when the
\* record at lock:L.resource carries L's owner token; otherwise it returns
\* false and leaves the record as it was.
C5_ReleaseByOwner ==
    [][llast'.op = "release" =>
          LET l == llast'.lock
              r == l.resource
          IN  /\ llast'.ret <=> (lock_store[r] = l.lock_id)
              /\ llast'.ret => lock_store'[r] = NoLock
              /\ ~llast'.ret => lock_store'[r] = lock_store[r]
              /\ \A o \in Resources \ {r} : lock_store'[o] = lock_store[o]]_vars

\* A release that returned false because the record carries the token of
\* another owner, who acquired the resource after the TTL expired.
C5_Witness ==
    /\ llast.op = "release" /\ ~llast.ret
    /\ llast.lock.lock_id \in 1..MaxLockIds
    /\ lock_store[llast.lock.resource] \notin {NoLock, llast.lock.lock_id}

\* C6: acquire_multiple(S) either returns one Lock per resource of S, all
\* live at the moment of return, or fails and leaves no resource of S held
\* by this caller, on every failure path.
C6_BulkAtomicity ==
    (llast.op = "acquire_multiple") =>
        LET locks == am.locks_acquired
        IN  IF llast.ret
            THEN /\ Len(locks) = Len(am.resources)
                 /\ \A i \in DOMAIN locks :
                       /\ locks[i].resource = am.resources[i]
                       /\ lock_store[locks[i].resource] = locks[i].lock_id
            ELSE \A i \in DOMAIN locks :
                       lock_store[locks[i].resource] # locks[i].lock_id

\* ------------------------------------------------------------------------
\* Properties of the workers
\* ------------------------------------------------------------------------

\* The worker is between the LLM call and the commit of its task.
Editing(w) == wpc[w] \in {"llm", "apply", "commit"}

\* The paths the worker's task touches.
Paths(w) == {TaskFiles(current_task[w])[i] :
                i \in 1..Len(TaskFiles(current_task[w]))}

\* C8: two workers whose tasks touch a common path are never both in the
\* period in which they invoke the LLM, write files and commit.
C8_NoConcurrentEdit ==
    \A w1 \in Callers : \A w2 \in Callers \ {w1} :
        (Editing(w1) /\ Editing(w2)) => Paths(w1) \cap Paths(w2) = {}

C10_TerminalStatus ==
    \A f \in finished :
        status[f.task] = IF f.success THEN "completed" ELSE "failed"

\* ------------------------------------------------------------------------
\* Properties of the merge orchestrator
\* ------------------------------------------------------------------------

C11_Fifo ==
    [][\A a \in AgentTypes :
          \E k \in 0..Len(queue'[a]) : \E j \in {0, 1} :
             /\ j <= Len(queue[a])
             /\ SubSeq(queue'[a], k + 1, Len(queue'[a])) =
                   SubSeq(queue[a], 1, Len(queue[a]) - j)
             /\ j = 1 => /\ k = 0
                         /\ qlast'.op = "dequeue"
                         /\ qlast'.task = queue[a][Len(queue[a])]]_vars

\* dequeue has returned a task while an id that entered the same queue
\* after it is still waiting.
C11_Witness ==
    /\ qlast.op = "dequeue"
    /\ qlast.success
    /\ \E a \in AgentTypes :
          /\ Len(queue[a]) >= 1
          /\ AgentTypeOf(qlast.task) = a

\* ------------------------------------------------------------------------
\* Properties of the validation pipeline
\* ------------------------------------------------------------------------

\* C15: after run_all, a validator whose _is_skippable() is true has a
\* skipped result and its validate() was not called, and all_passed is the
\* conjunction, over the results of the validators that were not skipped, of
\* "the status is passed".
C15_SkippedValidators ==
    plast.op = "run_all" =>
        /\ \A i \in 1..Len(plast.results) :
              validators[plast.results[i].gate_name].skippable =>
                  /\ plast.results[i].status = "skipped"
                  /\ plast.results[i].gate_name \notin Range(plast.invoked)
        /\ plast.all_passed =
              (\A r \in Range(plast.results) :
                  ~validators[r.gate_name].skippable => r.status = "passed")

\* run_all has passed over a skippable validator whose validate() would
\* have failed, and returned all_passed = true.
C15_Witness ==
    /\ plast.op = "run_all"
    /\ plast.all_passed
    /\ \E i \in 1..plast.n :
          /\ validators[i].skippable
          /\ validators[i].outcome = "failed"
    /\ \E i \in 1..plast.n : ~validators[i].skippable

\* The first validator whose result is failed or error, 0 if there is none.
FirstBad(n) ==
    LET bad == {i \in 1..n : /\ ~validators[i].skippable
                             /\ StatusOf(validators[i]) \in {"failed", "error"}}
    IN  IF bad = {} THEN 0 ELSE CHOOSE i \in bad : \A j \in bad : i <= j

\* C16: run_all returns one result per validator in insertion order; under
\* stop_on_failure the results end with the first failed or errored one and
\* no validator after it is invoked, otherwise every validator has a result.
C16_StopOnFailure ==
    plast.op = "run_all" =>
        /\ \A i \in 1..Len(plast.results) : plast.results[i].gate_name = i
        /\ Len(plast.results) =
              IF plast.stop_on_failure /\ FirstBad(plast.n) # 0
              THEN FirstBad(plast.n) ELSE plast.n
        /\ \A i \in Range(plast.invoked) : i <= Len(plast.results)

\* run_all(stop_on_failure=true) has stopped at a failed validator that
\* was followed by another one.
C16_Witness ==
    /\ plast.op = "run_all"
    /\ plast.stop_on_failure
    /\ FirstBad(plast.n) # 0
    /\ FirstBad(plast.n) < plast.n
    /\ ~validators[plast.n].skippable

\* ------------------------------------------------------------------------
\* Paths of merge_agent_work
\* ------------------------------------------------------------------------

\* A call of merge_agent_work has ended.
MergeDone == mpc = "idle" /\ mres.op = "merge_agent_work"

\* The files changed on the agent branch that the target branch also
\* changed since the two diverged.
Overlap == margs.branch_files \cap margs.target_files

\* The pipeline over the agent's worktree comes out with every gate passed.
GatesPass == RunAll(margs.gates, margs.stop_on_first_failure).all_passed

\* C12: when a file changed on the agent branch was also changed on the
\* target, merge_agent_work ends at the pre-check, before any validator,
\* checkout or merge, with success=false, conflict_detected=true, the list of
\* those files and rollback_performed=false.
C12_ConflictShortCircuit ==
    (MergeDone /\ Overlap # {}) =>
        /\ mres.path = "precheck"
        /\ ~mres.success
        /\ mres.conflict_detected
        /\ mres.conflicts = Overlap
        /\ ~mres.rollback_performed

\* C13: with the gates enabled, no file changed on both sides and a gate
\* that fails, merge_agent_work ends at the validation step, before the
\* merge, with success=false, conflict_detected=false,
\* quality_gates_passed=false and the results of the pipeline.
C13_ValidationShortCircuit ==
    (MergeDone /\ Overlap = {} /\ margs.run_quality_gates /\ ~GatesPass) =>
        /\ mres.path = "gates"
        /\ ~mres.success
        /\ ~mres.conflict_detected
        /\ ~mres.quality_gates_passed
        /\ mres.quality_results =
              RunAll(margs.gates, margs.stop_on_first_failure).results

\* C14: with no file changed on both sides and the gates passed or disabled,
\* merge_agent_work, unless git itself fails, merges the branch and returns
\* success=true, conflict_detected=false, quality_gates_passed=true and the
\* new head commit of the target.
C14_SuccessfulIntegration ==
    (/\ MergeDone
     /\ Overlap = {}
     /\ ~margs.run_quality_gates \/ GatesPass
     /\ mres.path \notin {"checkout", "merge_conflict", "merge_error"}) =>
        /\ mres.success
        /\ ~mres.conflict_detected
        /\ mres.quality_gates_passed
        /\ target_head = mentry.head + 1
        /\ mres.commit_sha = target_head

\* ------------------------------------------------------------------------
\* Properties of the dependency graph
\* ------------------------------------------------------------------------

\* The prerequisites of a node.
Prerequisites(t) == {node_deps[t][i] : i \in DOMAIN node_deps[t]}

\* The level of get_execution_order's answer that holds a task.
LevelOf(t) == CHOOSE i \in DOMAIN glast.levels : t \in glast.levels[i]

\* The greatest number of a set of naturals, 0 for the empty set.
Max(S) == IF S = {} THEN 0 ELSE CHOOSE x \in S : \A y \in S : y <= x

\* No add_node replaced a node, every dependency names a node and
\* validate_acyclic accepts the graph.
WellFormedGraph ==
    /\ gadds = Len(node_order)
    /\ \A t \in Nodes : Prerequisites(t) \subseteq Nodes
    /\ ValidateAcyclic(node_order, edges).is_valid

\* C17: on such a graph get_execution_order returns, without raising, levels
\* that hold every task exactly once, each task one level after the latest
\* of its prerequisites (the first level when it has none).
C17_ExecutionOrder ==
    (glast.op = "get_execution_order" /\ WellFormedGraph) =>
        /\ ~glast.raised
        /\ UNION {glast.levels[i] : i \in DOMAIN glast.levels} = Nodes
        /\ \A i, j \in DOMAIN glast.levels :
              i # j => glast.levels[i] \cap glast.levels[j] = {}
        /\ \A t \in Nodes :
              LevelOf(t) = 1 + Max({LevelOf(p) : p \in Prerequisites(t)})

\* get_execution_order has answered for a graph of three tasks in which one
\* task waits for a task that itself waits for the third.
C17_Witness ==
    /\ glast.op = "get_execution_order"
    /\ WellFormedGraph
    /\ Len(glast.levels) = 3

\* The pairs (prerequisite, dependent) of self.edges.
EdgeSet ==
    {<<a, b>> \in GraphIds \X GraphIds :
        \E i \in DOMAIN edges[a] : edges[a][i] = b}

\* A sequence of ids follows the edges.
FollowsEdges(p) ==
    \A i \in 1..(Len(p) - 1) : <<p[i], p[i + 1]>> \in EdgeSet

\* The edges contain a directed cycle.
HasDirectedCycle ==
    \E n \in 1..Cardinality(GraphIds) : \E p \in [1..(n + 1) -> GraphIds] :
        p[1] = p[n + 1] /\ FollowsEdges(p)

\* C18 as stated: validate_acyclic answers ok=false exactly when the edges
\* contain a directed cycle, and the path it returns starts and ends at the
\* same task and follows the edges.
C18_CycleItself ==
    glast.op = "validate_acyclic" =>
        /\ glast.is_valid = ~HasDirectedCycle
        /\ ~glast.is_valid =>
              /\ Len(glast.cycle) >= 2
              /\ glast.cycle[1] = glast.cycle[Len(glast.cycle)]
              /\ FollowsEdges(glast.cycle)

\* C18, amended: validate_acyclic answers ok=false exactly when the edges
\* contain a directed cycle, and the path it returns follows the edges and
\* ends in the cycle: its last task occurs earlier in the path, after the
\* tasks the search passed on its way to the cycle.
C18_PathEndsInCycle ==
    glast.op = "validate_acyclic" =>
        /\ glast.is_valid = ~HasDirectedCycle
        /\ ~glast.is_valid =>
              /\ FollowsEdges(glast.cycle)
              /\ \E k \in 1..(Len(glast.cycle) - 1) :
                    glast.cycle[k] = glast.cycle[Len(glast.cycle)]

\* validate_acyclic has returned a path that reaches the cycle from a task
\* outside it.
C18_Witness ==
    /\ glast.op = "validate_acyclic"
    /\ ~glast.is_valid
    /\ gadds = Len(node_order)
    /\ Len(glast.cycle) = 4
    /\ glast.cycle[1] # glast.cycle[4]
    /\ glast.cycle[2] = glast.cycle[4]


\* ------------------------------------------------------------------------
\* Contention and expiry under a clock
\* ------------------------------------------------------------------------

\* The callers that still have the Lock object with this id, unreleased.
Unreleased(id) == {c \in Callers : \E l \in held[c] : l.lock_id = id}

\* A call of acquire of caller c, during which another caller was given the
\* Lock first, returns or raises at this step.
ContendedCallEnds(c) ==
    /\ acq[c].pc \in {"trying", "setting"}
    /\ acq[c].rival # NoLock
    /\ acq'[c].pc = "idle"

\* C19 (as stated): two calls of acquire on one resource with the same
\* timeout that are in progress together: one is given the Lock first; the
\* other is given a Lock only once the first holder has released that Lock,
\* and otherwise its call ends with LockTimeoutError.
C19_OnlyAfterRelease ==
    [][\A c \in Callers :
          ContendedCallEnds(c)
          => IF held'[c] # held[c]
             THEN Unreleased(acq[c].rival) = {}
             ELSE llast'.op = "acquire" /\ llast'.ret = FALSE]_vars

\* C19 (amended): the other is given a Lock only once the first holder has
\* released that Lock or the record of that Lock has expired, and the
\* timeouts being equal an unreleased record is not gone before the other
\* call's deadline; otherwise the call ends at its deadline or later with
\* LockTimeoutError.
C19_AfterReleaseOrExpiry ==
    [][\A c \in Callers :
          ContendedCallEnds(c)
          => IF held'[c] # held[c]
             THEN \/ Unreleased(acq[c].rival) = {}
                  \/ /\ acq[c].rival \in expired
                     /\ now >= acq[c].deadline
             ELSE /\ llast'.op = "acquire" /\ llast'.ret = FALSE
                  /\ llast'.caller = c
                  /\ now >= acq[c].deadline]_vars

\* The second caller has been given the Lock after the first one, which was
\* given it while the second was trying, released it.
C19_Witness ==
    /\ llast.op = "acquire" /\ llast.ret = TRUE
    /\ llast.lock \in held[llast.caller]
    /\ acq[llast.caller].pc = "idle"
    /\ acq[llast.caller].resource = llast.lock.resource
    /\ acq[llast.caller].rival # NoLock
    /\ acq[llast.caller].rival < llast.lock.lock_id
    /\ Unreleased(acq[llast.caller].rival) = {}
    /\ acq[llast.caller].rival \notin expired

\* C20: a holder that never releases cannot keep a resource: the record of
\* its lock is gone once its TTL has run out, so that the key is absent for
\* the acquire of another caller from then on, and every record does go.
C20_TtlFreesResource ==
    /\ [](\A r \in Resources :
            lock_store[r] # NoLock => (ttl_at[r] # 0 /\ now < ttl_at[r]))
    /\ \A r \in Resources : \A id \in 1..(MaxLockIds + 1) :
          (lock_store[r] = id) ~> (lock_store[r] # id)

\* Another caller has been given the Lock of a resource whose earlier holder
\* still has its own Lock object, never released, the record of which ran out.
C20_Witness ==
    /\ llast.op = "acquire" /\ llast.ret = TRUE
    /\ now >= LockTimeout
    /\ \E c \in Callers : \E l \in held[c] :
          /\ c # llast.caller
          /\ l.resource = llast.lock.resource
          /\ l.lock_id \in expired
          /\ lock_store[l.resource] = llast.lock.lock_id


\* ------------------------------------------------------------------------
\* Failed prerequisites
\* ------------------------------------------------------------------------

\* The ids held by the specialty queues.
Queued == UNION {Range(queue[a]) : a \in AgentTypes}

\* The enqueued tasks that have task t among their prerequisites.
DependentsOf(t) ==
    {d \in TaskIds : task_hash[d].present /\ t \in task_hash[d].dependencies}

\* C21: once mark_completed(T) was called with an unsuccessful result, a
\* task that has T among its prerequisites stays in the pending set, with
\* status pending, and is in no specialty queue.
C21_FailedBlocksDependents ==
    \A t \in TaskIds :
        status[t] = "failed"
        => \A d \in DependentsOf(t) :
              /\ d \in pending
              /\ d \notin Queued
              /\ status[d] = "pending"

\* A task has failed, and a promotion pass for another prerequisite of one
\* of its dependents has run since and left the dependent where it was.
C21_Witness ==
    /\ qlast.op = "mark_completed" /\ qlast.success
    /\ \E t \in TaskIds : \E d \in DependentsOf(t) :
          /\ status[t] = "failed"
          /\ qlast.task \in task_hash[d].dependencies
          /\ qlast.task \notin deps_set[d]
          /\ d \in pending


\* ------------------------------------------------------------------------
\* Stopping a worker
\* ------------------------------------------------------------------------

\* C22: when stop() was called while the worker was inside _execute_task,
\* run_loop has, by the time it is left, reported that task to the queue
\* (its status is completed or failed) and taken no task after it.
C22_CooperativeStop ==
    \A w \in Callers :
        (wpc[w] = "stopped" /\ stopped_in[w] # NoTask)
        => /\ status[stopped_in[w]] \in {"completed", "failed"}
           /\ current_task[w] \in {NoTask, stopped_in[w]}


\* ------------------------------------------------------------------------
\* extend_lock
\* ------------------------------------------------------------------------

Rank(path) == CHOOSE i \in DOMAIN PathOrder : PathOrder[i] = path

\* C24: the locks of a task are requested once per distinct path of the
\* union of files_to_create and files_to_modify, in lexical order, and the
\* worker waits on no path it holds itself.
C24_SortedDistinctRequests ==
    flast.op = "_acquire_file_locks"
    => /\ \A i, j \in DOMAIN flast.out.requests :
             i < j => Rank(flast.out.requests[i]) < Rank(flast.out.requests[j])
       /\ Range(flast.out.requests) =
             Range(flast.files_to_create) \cup Range(flast.files_to_modify)
       /\ ~flast.out.waited_on_own


\* ------------------------------------------------------------------------
\* Calls of the queue that interleave
\* ------------------------------------------------------------------------

\* C25: the removal of a task id from its specialty queue and the change of
\* its status to in_progress are one step: no state has a popped task with
\* its status still pending, whether dequeue goes on or fails.
C25_AtomicDequeue ==
    [][\A t \in TaskIds :
          (t \in Queued /\ t \notin Queued') => status'[t] = "in_progress"]_vars

\* C26: whatever the interleaving of the promotion passes of two
\* mark_completed calls for prerequisites of one pending task, the task is
\* pushed to its specialty queue exactly once: never twice, and once when
\* the passes have removed its last prerequisite and returned.
C26_PromotedOnce ==
    \A t \in TaskIds :
        /\ pushes[t] <= 1
        /\ (/\ task_hash[t].present
            /\ task_hash[t].dependencies # {}
            /\ deps_set[t] = {}
            /\ \A c \in Callers : proc[c].pc \in {"idle", "working"})
           => pushes[t] = 1


\* ------------------------------------------------------------------------
\* Issues and the status of a gate
\* ------------------------------------------------------------------------

\* C27: a gate's result is failed exactly when it found an issue of severity
\* error; with warnings and infos only the result is passed and the pipeline
\* goes on (all_passed stays true).
C27_FailedOnErrorsOnly ==
    vlast.op = "validate"
    => /\ (vlast.status = "failed") <=> ("error" \in Range(vlast.issues))
       /\ ("error" \notin Range(vlast.issues))
             => (vlast.status = "passed" /\ vlast.all_passed)

\* C28: when the external tool of a gate exceeds its timeout, the result of
\* the gate has status error and the pipeline does not pass, so that
\* merge_agent_work refuses the merge as for a failed gate.
C28_TimeoutIsError ==
    (vlast.op = "type_check" /\ vlast.timed_out)
    => (vlast.status = "error" /\ ~vlast.all_passed)

\* ------------------------------------------------------------------------
\* A worktree on a branch that exists
\* ------------------------------------------------------------------------

\* C29: create_worktree(branch, base) on a branch that an earlier
\* create_worktree made, with its directory still there or removed since,
\* leaves nothing of the earlier workspace in the way and returns a workspace
\* on that branch: the call does not raise and the directory exists after it.
C29_RecreateOnExistingBranch ==
    (/\ rlast.op = "create_worktree"
     /\ rlast.existed
     /\ KnownBase(rlast.base))
    => (~rlast.raised /\ rlast.branch \in worktree_paths)

\* ------------------------------------------------------------------------
\* The commit and the report of a task
\* ------------------------------------------------------------------------

\* C30: when a worker calls mark_completed for a task, the changes of that
\* task are already in the head commit of the worker's branch: the commit
\* comes strictly before the call, so that whoever sees what the call does
\* can see the commit.
C30_CommitBeforeMarkCompleted ==
    [][\A w \in Callers :
          (wpc[w] = "report" /\ result[w] /\ wpc'[w] # "report")
          => current_task[w] \in branch_head[w]]_vars

\* A worker committed the changes of a task and then made its
\* mark_completed call for it.
C30_Witness ==
    \E w \in Callers : \E f \in finished :
       /\ f.success
       /\ f.task \in branch_head[w]
       /\ wpc[w] # "report"

\* ------------------------------------------------------------------------
\* Exceptions in the body of run_loop
\* ------------------------------------------------------------------------

\* C31: an exception of the queue calls in the body of run_loop never ends
\* the loop: run_loop only returns after stop() took the flag down, so a
\* worker whose flag is up does not stop in its next step.
C31_LoopSurvivesExceptions ==
    [][\A w \in Callers :
          (wpc[w] # "stopped" /\ wpc'[w] = "stopped") => ~is_running[w]]_vars

\* ------------------------------------------------------------------------
\* A lock that cannot be acquired
\* ------------------------------------------------------------------------

\* C32: when a file lock of a task cannot be acquired, the worker holds none
\* of the locks it obtained for the task, is never at the LLM call, the file
\* writes or the commit for it, leaves nothing of it in its worktree or on
\* its branch, the task is never queued again, and once the worker has
\* reported, the task has status failed.
C32_LockFailureFailsTask ==
    \A w \in Callers :
       LET t == current_task[w]
       IN  (t # NoTask /\ t \in lock_failed)
           => /\ acquired_locks[w] = <<>>
              /\ \A r \in DOMAIN lock_store : lock_store[r] \notin obtained[w]
              /\ wpc[w] \notin {"acquire", "llm", "apply", "commit"}
              /\ t \notin worktree[w] /\ t \notin branch_head[w]
              /\ \A ty \in DOMAIN queue : t \notin Range(queue[ty])
              /\ wpc[w] # "report" => status[t] = "failed"

\* ------------------------------------------------------------------------
\* The rollback of a merge
\* ------------------------------------------------------------------------

DirectDependents(t) == Range(edges[t]) \cap Nodes

\* The graph was built as a valid plan: no add_node replaced a node, every
\* edge starts at a node and validate_acyclic accepts the graph. The calls
\* of mark_completed made since do not change this.
ValidPlan ==
    /\ gadds = Len(node_order)
    /\ \A t \in GraphIds : edges[t] # <<>> => t \in Nodes
    /\ ValidateAcyclic(node_order, edges).is_valid

\* C34: on such a graph mark_completed(t) returns exactly the direct
\* dependents of t whose list of remaining prerequisites became empty
\* through this call, each of them once, and changes the list of no node
\* that is not a dependent of t; so a second call for the same t names no
\* task again.
C34_NewlyReadyExactly ==
    (glast.op = "mark_completed" /\ ValidPlan)
    => /\ Range(glast.newly_ready) =
             {d \in DirectDependents(glast.task_id) :
                 glast.before[d] # <<>> /\ node_deps[d] = <<>>}
       /\ \A i, j \in DOMAIN glast.newly_ready :
             glast.newly_ready[i] = glast.newly_ready[j] => i = j
       /\ \A n \in GraphIds \ DirectDependents(glast.task_id) :
             node_deps[n] = glast.before[n]

\* ------------------------------------------------------------------------
\* The execution order while tasks complete
\* ------------------------------------------------------------------------

\* C40: on a graph built as a valid plan, whatever calls of mark_completed
\* were made since, get_execution_order does not raise and returns levels
\* that hold every task of the graph exactly once.
C40_OrderAfterCompletions ==
    (glast.op = "get_execution_order" /\ ValidPlan)
    => /\ ~glast.raised
       /\ UNION {glast.levels[i] : i \in DOMAIN glast.levels} = Nodes
       /\ \A i, j \in DOMAIN glast.levels :
             i # j => glast.levels[i] \cap glast.levels[j] = {}

\* ------------------------------------------------------------------------
\* Tasks whose prerequisites have all completed
\* ------------------------------------------------------------------------

\* C35: between the calls of the queue, an enqueued task whose prerequisites
\* all have status completed has been placed in its specialty queue: it is
\* not in the pending set, and while its status is pending its id is in the
\* list of its specialty, whatever the order of the enqueue calls and of the
\* completions.
C35_ReadyIsQueued ==
    \A t \in TaskIds :
       (/\ task_hash[t].present
        /\ \A p \in task_hash[t].dependencies : status[p] = "completed")
       => /\ t \notin pending
          /\ status[t] = "pending"
                => t \in Range(queue[AgentTypeOf(t)])

\* ------------------------------------------------------------------------
\* enqueue while the prerequisite completes
\* ------------------------------------------------------------------------

\* No caller is in a promotion pass and no enqueue call is under way.
QueueQuiet ==
    /\ enq.pc = "idle"
    /\ \A c \in Callers :
          proc[c].pc \in {"idle", "hgetall", "set_status", "working", "raised"}

\* C36: when enqueue(T) and mark_completed(P) for the one prerequisite P of T
\* have both returned, however their store commands interleaved, T was pushed
\* to its specialty queue exactly once and is not in the pending set.
C36_EnqueueDuringCompletion ==
    \A t \in TaskIds :
       (/\ QueueQuiet
        /\ task_hash[t].present
        /\ Cardinality(task_hash[t].dependencies) = 1
        /\ \A p \in task_hash[t].dependencies : status[p] = "completed")
       => (pushes[t] = 1 /\ t \notin pending)

\* ------------------------------------------------------------------------
\* The reports of a worker
\* ------------------------------------------------------------------------

\* C37: for a task it dequeued, a worker makes exactly one report call,
\* mark_completed or mark_failed and never both, and none in a later
\* iteration; and while a worker polls, its current_task is None.
C37_OneReportPerTask ==
    /\ \A t \in TaskIds :
          /\ Len(reports[t]) <= 1
          /\ (\E f \in finished : f.task = t) => Len(reports[t]) = 1
    /\ \A w \in Callers : wpc[w] = "poll" => current_task[w] = NoTask

\* ------------------------------------------------------------------------
\* The result of merge_agent_work
\* ------------------------------------------------------------------------

C39_StopEndsLoop ==
    \A w \in Callers : stop_called[w] ~> (wpc[w] = "stopped")

====
